---- MODULE Spec2Model ----
(***************************************************************************)
(* Model of the KDD indexing engine (package kdd): the filesystem artifact *)
(* store, the single-document and incremental (git-diff) indexing          *)
(* commands, the merge engine, the in-memory event bus, and the read side *)
(* (index loader, graph store, vector store).                              *)
(*                                                                         *)
(* Strings are modelled as TLA+ strings where the code only compares them, *)
(* and a node id "Prefix:DocId" as the pair <<Prefix, DocId>>, so that the *)
(* code's split(":", 1)[-1] is the second component.                       *)
(***************************************************************************)
EXTENDS Integers, Sequences, FiniteSets, TLC

VARIABLES
    commits,    \* git history of the spec repository: commits[1] is the git index (the
                \* tracked files) before the first commit, commits[i] the tree of commit i
    store,      \* the .kdd-index/ directory the indexing commands write to
    now,        \* datetime.now(), a logical clock that advances once per command
    last,       \* what the last indexing command did: its inputs and its result
    sources,    \* merge: the source index directories, in the order they are supplied
    out,        \* merge: the index directory at output_path
    merges,     \* merge: number of merge_index calls made so far
    mlast,      \* merge: what the last merge_index call did
    bus,        \* event bus: InMemoryEventBus._handlers, event type -> list of handlers
    blast,      \* event bus: what the last publish, or the last call given a bus, did
    loader,     \* read side: the IndexLoader with its graph store and vector store
    llast,      \* read side: what the last IndexLoader.load call did
    disk        \* the bytes of manifest.json on disk and the write_text call in progress

vars == <<commits, store, now, last, sources, out, merges, mlast, bus, blast, loader, llast, disk>>
indexVars == <<commits, store, now, last>>
mergeVars == <<sources, out, merges, mlast>>
busVars == <<bus, blast>>
queryVars == <<loader, llast>>

(***************************************************************************)
(* Bounds of the model.                                                    *)
(***************************************************************************)
MaxCommits == 2     \* commits made in the repository
MaxStaged == 1      \* files added to the git index before the first commit
MaxClock == 2       \* indexing commands run
MaxMerges == 2      \* merge_index calls into the same output path
MaxSources == 2     \* length of the source_paths list
MaxStoredEdges == 2     \* lines of edges.jsonl written through the store's port
MaxImplicitEdges == 1   \* implicit edges enrich_with_agent leaves in an index
MaxSubscriptions == 2   \* subscribe calls made on the event bus

(***************************************************************************)
(* Small helpers on sequences.                                             *)
(***************************************************************************)
Range(s) == {s[i] : i \in DOMAIN s}

RECURSIVE SeqFilter(_, _)
SeqFilter(s, keep) ==
    IF s = <<>> THEN <<>>
    ELSE (IF Head(s) \in keep THEN <<Head(s)>> ELSE <<>>) \o SeqFilter(Tail(s), keep)

RECURSIVE FlattenSeq(_)
FlattenSeq(ss) == IF ss = <<>> THEN <<>> ELSE Head(ss) \o FlattenSeq(Tail(ss))

(***************************************************************************)
(* Python str operations.  A text is a string; its positions count from 1. *)
(***************************************************************************)
\* An optional value: None, or a value
None == [given |-> FALSE, items |-> <<>>]

Some(items) == [given |-> TRUE, items |-> items]

Char(text, i) == SubSeq(text, i, i)

\* The characters of a text, in order
Chars(text) == [i \in 1..Len(text) |-> Char(text, i)]

\* str.startswith
startswith(text, prefix) ==
    Len(text) >= Len(prefix) /\ SubSeq(text, 1, Len(prefix)) = prefix

\* str.find(sub, i): the first position from i on where sub begins, 0 when
\* there is none
find(text, sub, i) ==
    IF \E k \in i..(Len(text) - Len(sub) + 1) : SubSeq(text, k, k + Len(sub) - 1) = sub
    THEN CHOOSE k \in i..(Len(text) - Len(sub) + 1) :
             /\ SubSeq(text, k, k + Len(sub) - 1) = sub
             /\ \A j \in i..(k - 1) : SubSeq(text, j, j + Len(sub) - 1) # sub
    ELSE 0

\* The first position of a character of chars, 0 when there is none
FirstOf(text, chars) ==
    IF \E k \in 1..Len(text) : Char(text, k) \in chars
    THEN CHOOSE k \in 1..Len(text) :
             /\ Char(text, k) \in chars
             /\ \A j \in 1..(k - 1) : Char(text, j) \notin chars
    ELSE 0

\* The first and the last position of a character that is not in chars, 0
\* when there is none
FirstOutside(text, chars) ==
    IF \E k \in 1..Len(text) : Char(text, k) \notin chars
    THEN CHOOSE k \in 1..Len(text) :
             /\ Char(text, k) \notin chars
             /\ \A j \in 1..(k - 1) : Char(text, j) \in chars
    ELSE 0

LastOutside(text, chars) ==
    IF \E k \in 1..Len(text) : Char(text, k) \notin chars
    THEN CHOOSE k \in 1..Len(text) :
             /\ Char(text, k) \notin chars
             /\ \A j \in (k + 1)..Len(text) : Char(text, j) \in chars
    ELSE 0

\* str.strip(chars)
strip_chars(text, chars) ==
    IF FirstOutside(text, chars) = 0 THEN ""
    ELSE SubSeq(text, FirstOutside(text, chars), LastOutside(text, chars))

\* The characters str.strip() removes and those str.splitlines() breaks at,
\* of the characters a string of the model can hold
Whitespace == {" ", "\t", "\n", "\r", "\f"}

LineBreaks == {"\n", "\r", "\f"}

\* str.strip()
str_strip(text) == strip_chars(text, Whitespace)

\* str.split(sep), and str.split(sep, 1) from the separator found at k
RECURSIVE split(_, _)
SplitAt(text, sep, k) ==
    IF k = 0 THEN <<text>>
    ELSE <<SubSeq(text, 1, k - 1)>> \o split(SubSeq(text, k + Len(sep), Len(text)), sep)

split(text, sep) == SplitAt(text, sep, find(text, sep, 1))

\* str.splitlines(): "\r\n" is one line break, and no empty line follows
\* the last break
RECURSIVE splitlines(_)
BreakAt(text, k) ==
    IF k = 0 THEN <<text>>
    ELSE <<SubSeq(text, 1, k - 1)>>
         \o splitlines(SubSeq(text,
                              IF Char(text, k) = "\r" /\ k < Len(text) /\ Char(text, k + 1) = "\n"
                              THEN k + 2 ELSE k + 1,
                              Len(text)))

splitlines(text) == IF text = "" THEN <<>> ELSE BreakAt(text, FirstOf(text, LineBreaks))

\* str.lower of one character, on the letters A to Z
LowerOf(c) ==
    CASE c = "A" -> "a" [] c = "B" -> "b" [] c = "C" -> "c" [] c = "D" -> "d"
      [] c = "E" -> "e" [] c = "F" -> "f" [] c = "G" -> "g" [] c = "H" -> "h"
      [] c = "I" -> "i" [] c = "J" -> "j" [] c = "K" -> "k" [] c = "L" -> "l"
      [] c = "M" -> "m" [] c = "N" -> "n" [] c = "O" -> "o" [] c = "P" -> "p"
      [] c = "Q" -> "q" [] c = "R" -> "r" [] c = "S" -> "s" [] c = "T" -> "t"
      [] c = "U" -> "u" [] c = "V" -> "v" [] c = "W" -> "w" [] c = "X" -> "x"
      [] c = "Y" -> "y" [] c = "Z" -> "z" [] OTHER -> c

\* str.lower, of a text given by its characters
lower(text) == [i \in DOMAIN text |-> LowerOf(text[i])]

(***************************************************************************)
(* Wiki links.                                                             *)
(***************************************************************************)
WikiLink(raw, target, domain, alias) ==
    [raw |-> raw, target |-> target, domain |-> domain, alias |-> alias]

\* if "|" in target: target, alias = the stripped parts of target.split("|", 1)
WithAlias(raw, target, domain, bar) ==
    IF bar = 0 THEN WikiLink(raw, target, domain, None)
    ELSE WikiLink(raw, str_strip(SubSeq(target, 1, bar - 1)), domain,
                  Some(str_strip(SubSeq(target, bar + 1, Len(target)))))

\* if "::" in target: domain, target = the stripped parts of target.split("::", 1)
WithDomain(raw, colons) ==
    IF colons = 0 THEN WithAlias(raw, raw, None, find(raw, "|", 1))
    ELSE WithAlias(raw, str_strip(SubSeq(raw, colons + 2, Len(raw))),
                   Some(str_strip(SubSeq(raw, 1, colons - 1))),
                   find(str_strip(SubSeq(raw, colons + 2, Len(raw))), "|", 1))

\* The body of the loop over the matches: raw = match.group(1).strip()
LinkOf(raw) == IF raw = "" THEN <<>> ELSE <<WithDomain(raw, find(raw, "::", 1))>>

\* _WIKI_LINK_RE, \[\[([^\]]+)\]\], matched at position i where "[[" begins
\* and close is the position of the first "]" after it (0 for none): the
\* position of the last character of the match, 0 when there is no match
\* at i
MatchEnd(text, i, close) ==
    IF close > i + 2 /\ close < Len(text) /\ Char(text, close + 1) = "]" THEN close + 1
    ELSE 0

\* _WIKI_LINK_RE.finditer(content) from position i on: the matches from
\* left to right, none overlapping another; a match begins where "[[" does
RECURSIVE LinksFrom(_, _)
LinksAt(text, i, end) ==
    IF end = 0 THEN LinksFrom(text, i + 1)
    ELSE LinkOf(str_strip(SubSeq(text, i + 2, end - 2))) \o LinksFrom(text, end + 1)

LinksOpening(text, open) ==
    IF open = 0 THEN <<>>
    ELSE LinksAt(text, open, MatchEnd(text, open, find(text, "]", open + 2)))

LinksFrom(text, i) == LinksOpening(text, find(text, "[[", i))

\* extract_wiki_links
extract_wiki_links(content) == LinksFrom(content, 1)

\* [link.target for link in links]
LinkTargetsOf(links) == [i \in DOMAIN links |-> links[i].target]

\* extract_wiki_link_targets
extract_wiki_link_targets(content) == LinkTargetsOf(extract_wiki_links(content))

(***************************************************************************)
(* Domain enumerations and tables.                                         *)
(***************************************************************************)
KDDKind == {"entity", "command"}

KIND_LOOKUP == [k \in KDDKind |-> k]

KIND_PREFIX == [k \in KDDKind |-> IF k = "entity" THEN "Entity" ELSE "CMD"]

make_node_id(kind, document_id) == <<KIND_PREFIX[kind], document_id>>

\* node.id.split(":", 1)[-1]
DocIdOf(node_id) == node_id[2]

(***************************************************************************)
(* FilesystemArtifactStore.  A store is the content of one index           *)
(* directory: manifest.json, nodes/{kind}/{doc_id}.json, edges/edges.jsonl *)
(* (a list of lines) and embeddings/{kind}/{doc_id}.json (a list each).    *)
(***************************************************************************)
\* IndexStats: the counts of a manifest; enrichments keeps its default
IndexStats(nodes, edges, embeddings) ==
    [nodes |-> nodes, edges |-> edges, embeddings |-> embeddings, enrichments |-> 0]

NoManifest ==
    [present |-> FALSE, version |-> <<>>, kdd_version |-> <<>>, embedding_model |-> "",
     embedding_dimensions |-> 0, indexed_at |-> 0, indexed_by |-> "", structure |-> "",
     index_level |-> "", stats |-> IndexStats(0, 0, 0), domains |-> <<>>, git_commit |-> 0]

EmptyStore ==
    [manifest |-> NoManifest, nodes |-> {}, edges |-> <<>>, embeddings |-> {},
     enrichments |-> {}]

\* _node_path: nodes/{node.kind}/{doc id}.json
_node_path(node) == <<node.kind, DocIdOf(node.id)>>

write_manifest(st, manifest) == [st EXCEPT !.manifest = manifest]

read_manifest(st) == st.manifest

write_node(st, node) ==
    [st EXCEPT !.nodes = {m \in @ : _node_path(m) # _node_path(node)} \cup {node}]

RECURSIVE write_nodes(_, _)
write_nodes(st, nodes) ==
    IF nodes = <<>> THEN st ELSE write_nodes(write_node(st, Head(nodes)), Tail(nodes))

\* The document ids of the model, in the order sorted() gives file names
DocOrder == <<"A", "B", "X">>

\* read_all_nodes: the kind directories in directory order `dirs`, the node
\* files of each sorted by name.
RECURSIVE read_all_nodes(_, _)
read_all_nodes(st, dirs) ==
    IF dirs = <<>> THEN <<>>
    ELSE LET NodeAt(doc) == {n \in st.nodes : n.kind = Head(dirs) /\ DocIdOf(n.id) = doc}
             here == [i \in DOMAIN DocOrder |->
                         IF NodeAt(DocOrder[i]) = {} THEN <<>>
                         ELSE <<CHOOSE n \in NodeAt(DocOrder[i]) : TRUE>>]
         IN  FlattenSeq(here) \o read_all_nodes(st, Tail(dirs))

append_edges(st, edges) == [st EXCEPT !.edges = @ \o edges]

read_edges(st) == st.edges

\* _embedding_path: embeddings/{kind}/{document_id}.json
EmbFile(kind, doc, items) == [kind |-> kind, doc |-> doc, items |-> items]

\* write_embeddings groups the list by (document_kind, document_id) and
\* replaces one file per group with that group's embeddings, in list order.
EmbGroup(embeddings, kind, doc) ==
    SeqFilter(embeddings, {e \in Range(embeddings) :
                              e.document_kind = kind /\ e.document_id = doc})

write_embeddings(st, embeddings) ==
    LET keys == {<<e.document_kind, e.document_id>> : e \in Range(embeddings)}
    IN  [st EXCEPT !.embeddings =
            {f \in @ : <<f.kind, f.doc>> \notin keys}
            \cup {EmbFile(k[1], k[2], EmbGroup(embeddings, k[1], k[2])) : k \in keys}]

\* read_embeddings(document_id): the files {document_id}.json of every kind
\* directory, concatenated in directory order.
RECURSIVE read_embeddings(_, _, _)
read_embeddings(st, document_id, dirs) ==
    IF dirs = <<>> THEN <<>>
    ELSE LET here == {f \in st.embeddings : f.kind = Head(dirs) /\ f.doc = document_id}
         IN  (IF here = {} THEN <<>> ELSE (CHOOSE f \in here : TRUE).items)
             \o read_embeddings(st, document_id, Tail(dirs))

\* The content of embeddings/{kind}/{doc}.json, empty when there is no file
EmbItems(st, kind, doc) ==
    IF \E f \in st.embeddings : f.kind = kind /\ f.doc = doc
    THEN (CHOOSE f \in st.embeddings : f.kind = kind /\ f.doc = doc).items
    ELSE <<>>

\* read_all_embeddings: the kind directories in directory order, the files
\* of each sorted by name, the items of each file in order.
RECURSIVE read_all_embeddings(_, _)
read_all_embeddings(st, dirs) ==
    IF dirs = <<>> THEN <<>>
    ELSE FlattenSeq([i \in DOMAIN DocOrder |-> EmbItems(st, Head(dirs), DocOrder[i])])
         \o read_all_embeddings(st, Tail(dirs))

\* As _remove_edges_for_node, but dropping the lines of every node that has
\* the document id of node_id
_remove_edges_for_node_ByDocumentId(st, node_id) ==
    [st EXCEPT !.edges =
        SeqFilter(@, {e \in Range(@) : /\ DocIdOf(e.from_node) # DocIdOf(node_id)
                                       /\ DocIdOf(e.to_node) # DocIdOf(node_id)})]

\* _remove_edges_for_node: rewrite edges.jsonl without the lines that have
\* node_id as from_node or to_node.
_remove_edges_for_node(st, node_id) ==
    [st EXCEPT !.edges =
        SeqFilter(@, {e \in Range(@) : e.from_node # node_id /\ e.to_node # node_id})]

\* First kind directory, in directory order, that holds {document_id}.json.
RECURSIVE FirstNodeFile(_, _, _)
FirstNodeFile(st, document_id, dirs) ==
    IF dirs = <<>> THEN {}
    ELSE LET here == {n \in st.nodes : n.kind = Head(dirs) /\ DocIdOf(n.id) = document_id}
         IN  IF here # {} THEN here ELSE FirstNodeFile(st, document_id, Tail(dirs))

\* delete_document_artifacts(document_id): the node file is looked up by
\* the FILE NAME {document_id}.json; the first match is unlinked and the
\* edges of the node id read from it are removed (then `break`); every
\* embeddings file named {document_id}.json is unlinked.
delete_document_artifacts(st, document_id, dirs) ==
    LET hit == FirstNodeFile(st, document_id, dirs)
        st1 == IF hit = {} THEN st
               ELSE LET node == CHOOSE n \in hit : TRUE
                    IN  _remove_edges_for_node([st EXCEPT !.nodes = @ \ {node}], node.id)
    IN  [st1 EXCEPT !.embeddings = {f \in @ : f.doc # document_id}]

(***************************************************************************)
(* The spec repository.  repo_root is the git root and specs_root is its   *)
(* sub-directory specs/, as in the command's tests; paths are relative to  *)
(* the git root.  A tree maps the tracked paths to file contents, and the  *)
(* working tree is the tree of HEAD.                                       *)
(***************************************************************************)
Paths == {"README.md", "specs/A.md", "specs/B.md"}

\* git lists paths in byte order
PathOrder == <<"README.md", "specs/A.md", "specs/B.md">>

\* file_path.relative_to(specs_root) is defined for the paths under specs/
InsideSpecsRoot == {"specs/A.md", "specs/B.md"}
relative_to == ("specs/A.md" :> "A.md") @@ ("specs/B.md" :> "B.md")

\* file_path.stem
stem == ("README.md" :> "README") @@ ("specs/A.md" :> "A") @@ ("specs/B.md" :> "B")

\* The line "R100<TAB>old<TAB>new" of git diff --name-status, split once on
\* TAB, leaves the file path "old<TAB>new".
TabJoin(old, new) ==
    CASE old = "specs/A.md" /\ new = "specs/B.md" -> "specs/A.md\tspecs/B.md"
      [] old = "specs/B.md" /\ new = "specs/A.md" -> "specs/B.md\tspecs/A.md"
      [] old = "README.md" /\ new = "specs/A.md" -> "README.md\tspecs/A.md"
      [] old = "README.md" /\ new = "specs/B.md" -> "README.md\tspecs/B.md"
      [] old = "specs/A.md" /\ new = "README.md" -> "specs/A.md\tREADME.md"
      [] old = "specs/B.md" /\ new = "README.md" -> "specs/B.md\tREADME.md"

\* A file's content, by what the pipeline reads from it: whether it decodes
\* as UTF-8, the front-matter id ("" when there is none) and kind (already
\* lower-cased and stripped), the wiki-link targets of all its sections in
\* order, of these the first link of every row of the Relations table that
\* holds one and the links of the section the kind's extractor reads events
\* from, and the chunks its embeddable sections give, each by its text.
FileContent(enc, id, kind, links, relations, events, chunks) ==
    [enc |-> enc, id |-> id, kind |-> kind, links |-> links, relations |-> relations,
     events |-> events, chunks |-> chunks]

FileContents ==
    { FileContent("utf-8", "A", "entity", <<"B", "CMD-1", "B">>, <<"B">>, <<>>,
                  <<"links B, CMD-1">>),
      FileContent("utf-8", "", "entity", <<>>, <<>>, <<>>, <<"summary", "details">>),
      FileContent("utf-8", "", "note", <<"A">>, <<>>, <<>>, <<>>),
      FileContent("binary", "", "", <<>>, <<>>, <<>>, <<>>) }

\* What an edit that keeps the text similar leaves of the first content
EditedContents == {FileContent("utf-8", "A", "entity", <<"B">>, <<>>, <<>>, <<"links B">>)}

EmptyTree == <<>>

TreeWith(tree, path, content) ==
    [p \in (DOMAIN tree) \cup {path} |-> IF p = path THEN content ELSE tree[p]]

TreeWithout(tree, path) == [p \in (DOMAIN tree) \ {path} |-> tree[p]]

HEAD == Len(commits)

\* git rev-parse HEAD exits with an error while no commit exists:
\* get_current_commit returns None, written 0
CurrentCommit(history) == IF Len(history) = 1 THEN 0 ELSE Len(history)

\* get_current_commit: git rev-parse HEAD
get_current_commit == CurrentCommit(commits)

(***************************************************************************)
(* Parsing and extraction, as far as the artifacts depend on them.         *)
(***************************************************************************)
\* SHA-256 of the content: equal contents give equal digests and, SHA-256
\* being collision resistant, different contents give different digests.
compute_content_hash(content) == <<"sha256", content>>

\* route_document: the KDDKind of the front-matter kind, "" for None
route_document(front_matter_kind) ==
    IF front_matter_kind \in DOMAIN KIND_LOOKUP THEN KIND_LOOKUP[front_matter_kind] ELSE ""

\* The default registry has an extractor for every kind.
registry == KDDKind

\* prefix_map of resolve_wiki_link_to_node_id
PrefixMap ==
    << <<"EVT-", "Event">>, <<"BR-", "BR">>, <<"BP-", "BP">>, <<"XP-", "XP">>,
       <<"CMD-", "CMD">>, <<"QRY-", "QRY">>, <<"UC-", "UC">>, <<"PROC-", "PROC">>,
       <<"REQ-", "REQ">>, <<"OBJ-", "OBJ">>, <<"ADR-", "ADR">>, <<"PRD-", "PRD">>,
       <<"UI-", "UIView">> >>

\* resolve_wiki_link_to_node_id of a link with this target: the node
\* prefix of the first prefix the target starts with, Entity otherwise
RECURSIVE ResolveFrom(_, _)
ResolveFrom(target, i) ==
    IF i > Len(PrefixMap) THEN <<"Entity", target>>
    ELSE IF startswith(target, PrefixMap[i][1]) THEN <<PrefixMap[i][2], target>>
    ELSE ResolveFrom(target, i + 1)

resolve_wiki_link_to_node_id(target) == ResolveFrom(target, 1)

GraphEdge(from_node, to_node, edge_type, source_file, method) ==
    [from_node |-> from_node, to_node |-> to_node, edge_type |-> edge_type,
     source_file |-> source_file, extraction_method |-> method]

EdgeKey(e) == <<e.from_node, e.to_node, e.edge_type>>

\* build_wiki_link_edges: one WIKI_LINK edge per distinct resolved target
RECURSIVE build_wiki_link_edges(_, _, _, _)
build_wiki_link_edges(links, from_node_id, source_path, seen) ==
    IF links = <<>> THEN <<>>
    ELSE LET to_node_id == resolve_wiki_link_to_node_id(Head(links))
         IN  IF to_node_id \in seen
             THEN build_wiki_link_edges(Tail(links), from_node_id, source_path, seen)
             ELSE <<GraphEdge(from_node_id, to_node_id, "WIKI_LINK", source_path, "wiki_link")>>
                  \o build_wiki_link_edges(Tail(links), from_node_id, source_path,
                                           seen \cup {to_node_id})

\* _deduplicate_edges: keep the first edge of every (from, to, type)
RECURSIVE _deduplicate_edges(_, _)
_deduplicate_edges(edges, seen) ==
    IF edges = <<>> THEN <<>>
    ELSE IF EdgeKey(Head(edges)) \in seen
         THEN _deduplicate_edges(Tail(edges), seen)
         ELSE <<Head(edges)>> \o _deduplicate_edges(Tail(edges), seen \cup {EdgeKey(Head(edges))})

GraphNode(id, kind, source_file, source_hash, indexed_at) ==
    [id |-> id, kind |-> kind, source_file |-> source_file,
     source_hash |-> source_hash, indexed_at |-> indexed_at]

extract_node(kind, doc_id, source_path, source_hash, t) ==
    GraphNode(make_node_id(kind, doc_id), kind, source_path, source_hash, t)

\* _extract_relation_edges: one DOMAIN_RELATION edge per row of the
\* Relations table that holds a link, to the first link of the row
_extract_relation_edges(relation_links, from_node, source_file) ==
    [i \in DOMAIN relation_links |->
        GraphEdge(from_node, resolve_wiki_link_to_node_id(relation_links[i]),
                  "DOMAIN_RELATION", source_file, "section_content")]

\* _extract_event_edges, and the loop over the Postconditions links of the
\* command extractor: one EMITS edge per link whose target starts with EVT-
RECURSIVE _extract_event_edges(_, _, _)
_extract_event_edges(event_links, from_node, source_file) ==
    IF event_links = <<>> THEN <<>>
    ELSE (IF startswith(Head(event_links), "EVT-")
          THEN <<GraphEdge(from_node, resolve_wiki_link_to_node_id(Head(event_links)),
                           "EMITS", source_file, "wiki_link")>>
          ELSE <<>>)
         \o _extract_event_edges(Tail(event_links), from_node, source_file)

\* extract_edges of the extractor of `kind`: the WIKI_LINK edges of all the
\* content; for an entity the DOMAIN_RELATION edges of its Relations table;
\* the EMITS edges of its Lifecycle Events section (entity) or of its
\* Postconditions section (command); then _deduplicate_edges
extract_edges(kind, doc_id, source_path, links, relations, events) ==
    _deduplicate_edges(
        build_wiki_link_edges(links, make_node_id(kind, doc_id), source_path, {})
        \o (IF kind = "entity"
            THEN _extract_relation_edges(relations, make_node_id(kind, doc_id), source_path)
            ELSE <<>>)
        \o _extract_event_edges(events, make_node_id(kind, doc_id), source_path),
        {})

\* The Embedding built from chunk i of a document:
\* text_hash=compute_content_hash(chunk.content)
Embedding(doc_id, kind, i, chunk_content) ==
    [id |-> <<doc_id, i>>, document_id |-> doc_id, document_kind |-> kind,
     chunk_index |-> i, text_hash |-> compute_content_hash(chunk_content)]

(***************************************************************************)
(* CMD-001 index_document.  The outcome is the store after the call and    *)
(* either the IndexResult returned or the exception that left the call.    *)
(***************************************************************************)
IndexResult(success, node_id, edge_count, embedding_count, skipped_reason) ==
    [success |-> success, node_id |-> node_id, edge_count |-> edge_count,
     embedding_count |-> embedding_count, skipped_reason |-> skipped_reason]

Returned(st, res) == [st |-> st, raised |-> "", res |-> res]

Raised(st, exc) == [st |-> st, raised |-> exc, res |-> IndexResult(FALSE, <<>>, 0, 0, "")]

\* if edges: artifact_store.append_edges(edges)
AppendEdgesIfAny(st, edges) == IF edges # <<>> THEN append_edges(st, edges) ELSE st

\* if embeddings: artifact_store.write_embeddings(embeddings)
WriteEmbeddingsIfAny(st, embeddings) ==
    IF embeddings # <<>> THEN write_embeddings(st, embeddings) ELSE st

\* Steps 6 to 8 of index_document: write the node, append the edges, write
\* the embeddings, and return the counts
WriteArtifacts(st, node, edges, embeddings) ==
    Returned(WriteEmbeddingsIfAny(AppendEdgesIfAny(write_node(st, node), edges), embeddings),
             IndexResult(TRUE, node.id, Len(edges), Len(embeddings), ""))

index_document(st, tree, file_path, index_level, has_model, t) ==
    IF file_path \notin DOMAIN tree
    THEN Returned(st, IndexResult(FALSE, <<>>, 0, 0, "File error"))
    ELSE LET content == tree[file_path] IN
    IF content.enc # "utf-8" THEN Raised(st, "UnicodeDecodeError")
    ELSE IF file_path \notin InsideSpecsRoot THEN Raised(st, "ValueError")
    ELSE LET relative_path == relative_to[file_path]
             kind == route_document(content.kind)
         IN
    IF kind = ""
    THEN Returned(st, IndexResult(FALSE, <<>>, 0, 0, "No valid kind in front-matter"))
    ELSE IF kind \notin registry
    THEN Returned(st, IndexResult(FALSE, <<>>, 0, 0, "No extractor registered"))
    ELSE LET doc_id == IF content.id # "" THEN content.id ELSE stem[file_path]
             source_hash == compute_content_hash(content)
         IN  WriteArtifacts(
                 st,
                 extract_node(kind, doc_id, relative_path, source_hash, t),
                 extract_edges(kind, doc_id, relative_path, content.links, content.relations,
                               content.events),
                 IF index_level \in {"L2", "L3"} /\ has_model
                 THEN [i \in DOMAIN content.chunks |->
                          Embedding(doc_id, kind, i - 1, content.chunks[i])]
                 ELSE <<>>)

(***************************************************************************)
(* CMD-003 enrich_with_agent.  The agent's answer is an input: whether     *)
(* agent_client.enrich raised, and the implicit_relations of the dict it   *)
(* returned, each a dict holding "target" and, or not, "type".             *)
(***************************************************************************)
EnrichResult(success, implicit_edges, error) ==
    [success |-> success, implicit_edges |-> implicit_edges, error |-> error]

\* What the command did: the index directory after it, the exception that
\* left it ("" when it returned) and the EnrichResult
Enriched(st, raised, res) == [st |-> st, raised |-> raised, res |-> res]

\* dict.get(key, default)
Get(dict, key, default) == IF key \in DOMAIN dict THEN dict[key] ELSE default

\* read_node(node_id): the file {doc id}.json of the first kind directory,
\* in directory order, that holds one; {} for None
read_node(st, node_id, dirs) == FirstNodeFile(st, DocIdOf(node_id), dirs)

\* The file specs_root / node.source_file, by its encoding ("" when it does
\* not exist): the file of the working tree at that path, or, when the
\* repository tracks none there, what the directory holds untracked
SourceDocument(tree, source_file, untracked) ==
    LET tracked == {p \in (DOMAIN tree) \cap InsideSpecsRoot : relative_to[p] = source_file}
    IN  IF tracked # {} THEN tree[CHOOSE p \in tracked : TRUE].enc ELSE untracked

\* Step 5: enrichments/{doc_id}.json is written, over the file of that name
write_enrichment(st, doc_id, enrichment) ==
    [st EXCEPT !.enrichments =
        {f \in @ : f.doc # doc_id} \cup {[doc |-> doc_id, enrichment |-> enrichment]}]

\* Step 6: one edge per implicit relation, from the node id the caller gave
ImplicitEdges(implicit_relations, node_id, source_file) ==
    [i \in DOMAIN implicit_relations |->
        GraphEdge(node_id, implicit_relations[i].target,
                  Get(implicit_relations[i], "type", "WIKI_LINK"), source_file, "implicit")]

enrich_with_agent(st, tree, node_id, dirs, untracked, answer) ==
    IF read_node(st, node_id, dirs) = {}
    THEN Enriched(st, "", EnrichResult(FALSE, 0, "NODE_NOT_FOUND"))
    ELSE LET node == CHOOSE n \in read_node(st, node_id, dirs) : TRUE
             document == SourceDocument(tree, node.source_file, untracked)
         IN
    IF document = ""
    THEN Enriched(st, "", EnrichResult(FALSE, 0, "DOCUMENT_NOT_FOUND"))
    ELSE IF document # "utf-8"
    THEN Enriched(st, "UnicodeDecodeError", EnrichResult(FALSE, 0, ""))
    ELSE IF answer.raised
    THEN Enriched(st, "", EnrichResult(FALSE, 0, "AGENT_ERROR"))
    ELSE Enriched(
             AppendEdgesIfAny(
                 write_enrichment(st, DocIdOf(node_id), answer.enrichment),
                 ImplicitEdges(answer.enrichment.implicit_relations, node_id,
                               node.source_file)),
             "",
             EnrichResult(TRUE, Len(answer.enrichment.implicit_relations), ""))

(***************************************************************************)
(* git diff --name-status since_commit HEAD, and git ls-files.             *)
(***************************************************************************)
\* _matches_any(filepath, ["**/*.md"]): every path of the model, and every
\* "old<TAB>new" of two of them, ends in .md
_matches_any(filepath) == TRUE

\* Two texts that git finds at least 50% similar (its default threshold)
\* without being equal: an edit of a document that keeps its front matter
\* and its sections and changes links.  Other contents of the model that
\* differ are taken to be too dissimilar.
Similar(c, d) ==
    /\ c # d
    /\ c.enc = "utf-8" /\ d.enc = "utf-8"
    /\ c.id = d.id /\ c.kind = d.kind /\ Len(c.chunks) = Len(d.chunks)

\* Exact renames (R100): a path that disappeared paired with a path that
\* appeared with the same content
ExactRenamePairs(old, new) ==
    {pr \in ((DOMAIN old) \ (DOMAIN new)) \X ((DOMAIN new) \ (DOMAIN old)) :
        old[pr[1]] = new[pr[2]]}

\* The renames git may report: the exact ones and the inexact ones, a path
\* that disappeared paired with a path that appeared with a similar content
RenamePairs(old, new) ==
    {pr \in ((DOMAIN old) \ (DOMAIN new)) \X ((DOMAIN new) \ (DOMAIN old)) :
        old[pr[1]] = new[pr[2]] \/ Similar(old[pr[1]], new[pr[2]])}

IsMatching(m) == \A x, y \in m : (x[1] = y[1] \/ x[2] = y[2]) => x = y

\* The matchings of `pairs` that extend the matching `base` and that no
\* further pair extends
MaximalMatchings(pairs, base) ==
    {m \in SUBSET pairs :
        /\ IsMatching(base \cup m)
        /\ \A pr \in pairs \ m : ~IsMatching(base \cup m \cup {pr})}

\* git pairs every renamed file it can: first the exact renames, then the
\* inexact ones among the paths left
RenameMatchings(old, new) ==
    UNION {{exact \cup m :
               m \in MaximalMatchings(RenamePairs(old, new) \ ExactRenamePairs(old, new),
                                     exact)} :
           exact \in MaximalMatchings(ExactRenamePairs(old, new), {})}

DiffResult(added, modified, deleted) ==
    [added |-> added, modified |-> modified, deleted |-> deleted]

\* The status line git prints for path p, as <<status, filepath>>, or <<>>
DiffLine(old, new, renames, p) ==
    IF \E pr \in renames : pr[2] = p
    THEN LET pr == CHOOSE x \in renames : x[2] = p IN <<"R", TabJoin(pr[1], pr[2])>>
    ELSE IF \E pr \in renames : pr[1] = p THEN <<>>
    ELSE IF p \in DOMAIN new /\ p \notin DOMAIN old THEN <<"A", p>>
    ELSE IF p \in DOMAIN old /\ p \notin DOMAIN new THEN <<"D", p>>
    ELSE IF p \in DOMAIN old /\ p \in DOMAIN new /\ old[p] # new[p] THEN <<"M", p>>
    ELSE <<>>

RECURSIVE DiffPaths(_, _, _, _, _)
DiffPaths(old, new, renames, order, statuses) ==
    IF order = <<>> THEN <<>>
    ELSE LET line == DiffLine(old, new, renames, Head(order))
         IN  (IF line # <<>> /\ line[1] \in statuses /\ _matches_any(line[2])
              THEN <<line[2]>> ELSE <<>>)
             \o DiffPaths(old, new, renames, Tail(order), statuses)

get_diff(old, new, renames) ==
    DiffResult(DiffPaths(old, new, renames, PathOrder, {"A"}),
               DiffPaths(old, new, renames, PathOrder, {"M", "R"}),
               DiffPaths(old, new, renames, PathOrder, {"D"}))

\* scan_files: the tracked files matching the patterns, sorted
scan_files(tree) == SeqFilter(PathOrder, {p \in DOMAIN tree : _matches_any(p)})

(***************************************************************************)
(* CMD-002 index_incremental.                                              *)
(***************************************************************************)
IncrementalResult(indexed, deleted, skipped, errors, results, is_full_reindex) ==
    [indexed |-> indexed, deleted |-> deleted, skipped |-> skipped, errors |-> errors,
     results |-> results, is_full_reindex |-> is_full_reindex]

\* The IndexManifest the commands build: version and kdd_version "1.0.0",
\* structure and domains at their defaults; no model is "", and no
\* dimensions and no commit are 0
IndexManifest(index_level, git_commit, indexed_at, indexed_by, model, dimensions, nodes, edges, embeddings) ==
    [present |-> TRUE, version |-> <<1, 0, 0>>, kdd_version |-> <<1, 0, 0>>,
     embedding_model |-> model, embedding_dimensions |-> dimensions,
     indexed_at |-> indexed_at, indexed_by |-> indexed_by, structure |-> "single-domain",
     index_level |-> index_level, stats |-> IndexStats(nodes, edges, embeddings),
     domains |-> <<>>, git_commit |-> git_commit]

\* One iteration of the three loops over diff.added / diff.modified /
\* diff.deleted (or over all files).  An exception leaves the command at
\* once: nothing after it runs.
RecordResult(acc, r) ==
    IF r.raised # "" THEN [acc EXCEPT !.st = r.st, !.raised = r.raised]
    ELSE [acc EXCEPT !.st = r.st,
                     !.result.results = Append(@, r.res),
                     !.result.indexed = IF r.res.success THEN @ + 1 ELSE @,
                     !.result.skipped =
                         IF ~r.res.success /\ r.res.skipped_reason # "" THEN @ + 1 ELSE @,
                     !.result.errors =
                         IF ~r.res.success /\ r.res.skipped_reason = "" THEN @ + 1 ELSE @]

ProcessFile(acc, op, rel_path, tree, index_level, has_model, t, dirs) ==
    IF acc.raised # "" THEN acc
    ELSE IF op = "deleted"
    THEN [acc EXCEPT !.st = delete_document_artifacts(acc.st, rel_path, dirs),
                     !.result.deleted = @ + 1]
    ELSE RecordResult(acc,
             index_document(IF op = "modified"
                            THEN delete_document_artifacts(acc.st, rel_path, dirs)
                            ELSE acc.st,
                            tree, rel_path, index_level, has_model, t))

RECURSIVE ProcessFiles(_, _, _, _, _, _, _, _)
ProcessFiles(acc, op, files, tree, index_level, has_model, t, dirs) ==
    IF files = <<>> THEN acc
    ELSE ProcessFiles(ProcessFile(acc, op, Head(files), tree, index_level, has_model, t, dirs),
                      op, Tail(files), tree, index_level, has_model, t, dirs)

RECURSIVE SumOver(_, _)
SumOver(results, field) ==
    IF results = <<>> THEN 0
    ELSE (IF Head(results).success
          THEN (CASE field = "nodes" -> 1
                  [] field = "edges" -> Head(results).edge_count
                  [] field = "embeddings" -> Head(results).embedding_count)
          ELSE 0) + SumOver(Tail(results), field)

\* The whole command: the store it leaves, the exception that left it (""
\* when it returned), its IncrementalResult and the diff it worked from.
\* The loops of the run: every matching file when there is no previous
\* manifest, else the added, the modified and the deleted files of the diff
RunLoops(acc0, full, diff, tree, index_level, has_model, t, dirs) ==
    IF full
    THEN ProcessFiles(acc0, "added", scan_files(tree), tree, index_level, has_model, t, dirs)
    ELSE ProcessFiles(
            ProcessFiles(
                ProcessFiles(acc0, "added", diff.added, tree, index_level, has_model, t, dirs),
                "modified", diff.modified, tree, index_level, has_model, t, dirs),
            "deleted", diff.deleted, tree, index_level, has_model, t, dirs)

\* The end of the run: the manifest is written unless an exception left
\* the command before
UpdateManifest(acc1, diff, index_level, current_commit, t) ==
    [st |-> IF acc1.raised = ""
            THEN write_manifest(acc1.st,
                     IndexManifest(index_level, current_commit, t, "kdd-cli", "", 0,
                                   SumOver(acc1.result.results, "nodes"),
                                   SumOver(acc1.result.results, "edges"),
                                   SumOver(acc1.result.results, "embeddings")))
            ELSE acc1.st,
     raised |-> acc1.raised, result |-> acc1.result, diff |-> diff]

RunFrom(st, full, diff, tree, current_commit, index_level, has_model, t, dirs) ==
    UpdateManifest(
        RunLoops([st |-> st, raised |-> "",
                  result |-> IncrementalResult(0, 0, 0, 0, <<>>, full)],
                 full, diff, tree, index_level, has_model, t, dirs),
        diff, index_level, current_commit, t)

index_incremental(st, history, index_level, has_model, t, renames, dirs) ==
    LET manifest == read_manifest(st)
        current_commit == CurrentCommit(history)
        full == ~manifest.present \/ manifest.git_commit = 0
    IN  RunFrom(st, full,
                IF full THEN DiffResult(<<>>, <<>>, <<>>)
                ELSE get_diff(history[manifest.git_commit], history[Len(history)], renames),
                history[Len(history)], current_commit, index_level, has_model, t, dirs)

(***************************************************************************)
(* The read side: NetworkXGraphStore, HNSWLibVectorStore and IndexLoader.  *)
(***************************************************************************)
\* NetworkXGraphStore.__init__: an empty nx.DiGraph and an empty node dict.
\* order is the node order of the DiGraph, adj its edges: one entry for
\* each ordered pair of nodes, in the order the pairs were first added.
NewGraph == [order |-> <<>>, nodes |-> {}, adj |-> <<>>]

AppendIfAbsent(order, node_id) ==
    IF node_id \in Range(order) THEN order ELSE Append(order, node_id)

\* self._graph.add_node(node.id, data=node); self._nodes[node.id] = node
add_node(g, node) ==
    [g EXCEPT !.order = AppendIfAbsent(@, node.id),
              !.nodes = {m \in @ : m.id # node.id} \cup {node}]

SamePair(e, f) == e.from_node = f.from_node /\ e.to_node = f.to_node

\* self._graph.add_edge(from_node, to_node, data=edge) on a DiGraph: the
\* end points become nodes of the graph, and the edge of an ordered pair
\* that already has one is replaced by the new one
add_edge(g, edge) ==
    [g EXCEPT !.order = AppendIfAbsent(AppendIfAbsent(@, edge.from_node), edge.to_node),
              !.adj = IF \E i \in DOMAIN @ : SamePair(@[i], edge)
                      THEN [i \in DOMAIN @ |-> IF SamePair(@[i], edge) THEN edge ELSE @[i]]
                      ELSE Append(@, edge)]

RECURSIVE add_nodes(_, _)
add_nodes(g, nodes) ==
    IF nodes = <<>> THEN g ELSE add_nodes(add_node(g, Head(nodes)), Tail(nodes))

RECURSIVE add_edges(_, _)
add_edges(g, edges) ==
    IF edges = <<>> THEN g ELSE add_edges(add_edge(g, Head(edges)), Tail(edges))

\* NetworkXGraphStore.load: clear, then add the nodes, then the edges
GraphLoad(nodes, edges) == add_edges(add_nodes(NewGraph, nodes), edges)

\* all_edges: self._graph.edges(data=True), node by node in node order
all_edges(g) ==
    FlattenSeq([i \in DOMAIN g.order |->
                   SeqFilter(g.adj, {e \in Range(g.adj) : e.from_node = g.order[i]})])

outgoing_edges(g, node_id) ==
    IF node_id \notin Range(g.order) THEN <<>>
    ELSE SeqFilter(g.adj, {e \in Range(g.adj) : e.from_node = node_id})

incoming_edges(g, node_id) ==
    IF node_id \notin Range(g.order) THEN <<>>
    ELSE SeqFilter(g.adj, {e \in Range(g.adj) : e.to_node = node_id})

\* HNSWLibVectorStore.__init__
NewVector == [id_map |-> <<>>]

\* HNSWLibVectorStore.load: the index is rebuilt from the list; _id_map is
\* the list of the embedding ids
VectorLoad(embeddings) == [id_map |-> [i \in DOMAIN embeddings |-> embeddings[i].id]]

\* IndexLoader.__init__; has_vector says whether a vector store was given.
\* _loaded_manifest_hash = None is written <<>>.
NewLoader(has_vector) ==
    [graph |-> NewGraph, vector |-> NewVector, has_vector |-> has_vector,
     loaded_manifest_hash |-> <<>>]

\* f"{manifest.indexed_at}:{manifest.stats.nodes}:{manifest.stats.edges}":
\* the three values, which the string determines and is determined by
ManifestHash(manifest) ==
    <<manifest.indexed_at, manifest.stats.nodes, manifest.stats.edges>>

\* What load did: the loader after the call and the value returned
Loaded(l, returned) == [loader |-> l, returned |-> returned]

\* if self._vector is not None: ... if embeddings: self._vector.load(embeddings)
LoadVectors(l, embeddings) ==
    IF l.has_vector /\ embeddings # <<>>
    THEN [l EXCEPT !.vector = VectorLoad(embeddings)]
    ELSE l

\* IndexLoader.load(force).  read_all_nodes lists nodes/ and
\* read_all_embeddings lists embeddings/: two directories, each listed in
\* an order of its own (node_dirs, emb_dirs)
load(l, st, force, node_dirs, emb_dirs) ==
    IF ~read_manifest(st).present THEN Loaded(l, FALSE)
    ELSE IF ~force /\ l.loaded_manifest_hash = ManifestHash(read_manifest(st))
    THEN Loaded(l, FALSE)
    ELSE Loaded([LoadVectors([l EXCEPT !.graph = GraphLoad(read_all_nodes(st, node_dirs),
                                                          read_edges(st))],
                             read_all_embeddings(st, emb_dirs))
                   EXCEPT !.loaded_manifest_hash = ManifestHash(read_manifest(st))],
                TRUE)

\* IndexLoader.reload
reload(l, st, node_dirs, emb_dirs) == load(l, st, TRUE, node_dirs, emb_dirs)

(***************************************************************************)
(* Actions of the indexing specification.                                  *)
(***************************************************************************)
\* The index level and whether an embedding model is passed: a caller has
\* level L2 exactly when it has an embedding model (detect_index_level).
IndexConfigs == {<<"L1", FALSE>>, <<"L2", TRUE>>}

\* Orders in which Path.iterdir() may list the kind sub-directories
DirOrders == {<<"entity", "command">>, <<"command", "entity">>}

NoLast == [op |-> "none"]

\* Spec authors give every document its own id: no two files of a tree
\* yield the same node id.
UniqueIds(tree) ==
    \A p, q \in (DOMAIN tree) \cap InsideSpecsRoot :
        (/\ route_document(tree[p].kind) # "" /\ route_document(tree[q].kind) # ""
         /\ tree[p].enc = "utf-8" /\ tree[q].enc = "utf-8"
         /\ make_node_id(route_document(tree[p].kind),
                         IF tree[p].id # "" THEN tree[p].id ELSE stem[p])
            = make_node_id(route_document(tree[q].kind),
                           IF tree[q].id # "" THEN tree[q].id ELSE stem[q]))
        => p = q

\* git add of a new file in a repository that has no commit yet
GitAdd(path, content) ==
    /\ Len(commits) = 1
    /\ Cardinality(DOMAIN commits[1]) < MaxStaged
    /\ path \notin DOMAIN commits[1]
    /\ UniqueIds(TreeWith(commits[1], path, content))
    /\ commits' = <<TreeWith(commits[1], path, content)>>
    /\ last' = [op |-> "add"]
    /\ UNCHANGED <<store, now, mergeVars, busVars, queryVars, disk>>

\* Write a file, git add ., git commit: a commit that adds a file or
\* changes the content of one; with nothing changed git makes no commit,
\* unless the repository has none yet and the staged files become the first
CommitWrite(path, content) ==
    /\ Len(commits) <= MaxCommits
    /\ now <= MaxClock    \* commits are made while an indexing command can follow
    /\ Len(commits) > 1 => (path \in DOMAIN commits[HEAD] => commits[HEAD][path] # content)
    /\ UniqueIds(TreeWith(commits[HEAD], path, content))
    /\ commits' = Append(commits, TreeWith(commits[HEAD], path, content))
    /\ last' = [op |-> "commit"]
    /\ UNCHANGED <<store, now, mergeVars, busVars, queryVars, disk>>

\* Unlink a file, git add ., git commit: a commit that deletes a file.  In
\* a repository without a commit the file leaves the git index, and when
\* the index is then empty git has nothing to commit and makes no commit
CommitDelete(path) ==
    /\ Len(commits) <= MaxCommits
    /\ now <= MaxClock
    /\ path \in DOMAIN commits[HEAD]
    /\ commits' = IF Len(commits) = 1 /\ DOMAIN TreeWithout(commits[1], path) = {}
                  THEN <<EmptyTree>>
                  ELSE Append(commits, TreeWithout(commits[HEAD], path))
    /\ last' = [op |-> "commit"]
    /\ UNCHANGED <<store, now, mergeVars, busVars, queryVars, disk>>

\* A commit that moves a file (git mv)
CommitRename(old, new) ==
    /\ Len(commits) <= MaxCommits
    /\ now <= MaxClock
    /\ old \in DOMAIN commits[HEAD]
    /\ new \notin DOMAIN commits[HEAD]
    /\ UniqueIds(TreeWith(TreeWithout(commits[HEAD], old), new, commits[HEAD][old]))
    /\ commits' = Append(commits, TreeWith(TreeWithout(commits[HEAD], old), new,
                                           commits[HEAD][old]))
    /\ last' = [op |-> "commit"]
    /\ UNCHANGED <<store, now, mergeVars, busVars, queryVars, disk>>

\* A commit that moves a file and edits it (git mv, an edit that leaves the
\* text similar, git commit)
CommitRenameEdited(old, new, content) ==
    /\ Len(commits) <= MaxCommits
    /\ now <= MaxClock
    /\ old \in DOMAIN commits[HEAD]
    /\ new \notin DOMAIN commits[HEAD]
    /\ Similar(commits[HEAD][old], content)
    /\ UniqueIds(TreeWith(TreeWithout(commits[HEAD], old), new, content))
    /\ commits' = Append(commits, TreeWith(TreeWithout(commits[HEAD], old), new, content))
    /\ last' = [op |-> "commit"]
    /\ UNCHANGED <<store, now, mergeVars, busVars, queryVars, disk>>

\* The store after the call, and the record of what the call returned
IndexDocumentDone(path, r) ==
    /\ store' = r.st
    /\ last' = [op |-> "index_document", path |-> path, raised |-> r.raised, res |-> r.res]

\* index_document called on one file of the working tree
IndexDocument(path, index_level, has_model) ==
    /\ now <= MaxClock
    /\ IndexDocumentDone(path,
           index_document(store, commits[HEAD], path, index_level, has_model, now))
    /\ now' = now + 1
    /\ UNCHANGED <<commits, mergeVars, busVars, queryVars, disk>>

\* The store after the run, and the record of what the run returned
IndexIncrementalDone(r) ==
    /\ store' = r.st
    /\ last' = [op |-> "index_incremental", raised |-> r.raised, result |-> r.result,
                diff |-> r.diff, since |-> store.manifest.git_commit,
                after_run |-> last.op = "index_incremental" /\ last.raised = ""]

\* index_incremental run on the repository
IndexIncremental(index_level, has_model) ==
    /\ now <= MaxClock
    /\ LET since == IF store.manifest.present /\ store.manifest.git_commit # 0
                    THEN commits[store.manifest.git_commit] ELSE EmptyTree
       IN  \E renames \in RenameMatchings(since, commits[HEAD]), dirs \in DirOrders :
             IndexIncrementalDone(
                 index_incremental(store, commits, index_level, has_model, now,
                                   renames, dirs))
    /\ now' = now + 1
    /\ UNCHANGED <<commits, mergeVars, busVars, queryVars, disk>>

\* The implicit edges an index directory holds
ImplicitCount(st) ==
    Cardinality({i \in DOMAIN st.edges : st.edges[i].extraction_method = "implicit"})

\* The agent's answers: an exception, or a dict with the given relations
AgentAnswers(relation_lists) ==
    {[raised |-> TRUE, enrichment |-> [implicit_relations |-> <<>>]]}
        \cup {[raised |-> FALSE, enrichment |-> [implicit_relations |-> rels]] :
                  rels \in relation_lists}

\* What a directory may hold at a path the repository does not track:
\* nothing, a UTF-8 document, a file that does not decode
UntrackedFiles == {"", "utf-8", "binary"}

\* The nodes the command is called on, and the relations the agent finds
EnrichedNodes == {<<"Entity", "A">>, <<"Entity", "X">>}

ImplicitRelations ==
    { <<>>,
      <<[target |-> <<"Entity", "A">>]>>,
      <<[target |-> <<"Entity", "B">>, type |-> "DOMAIN_RELATION"]>> }

EnrichWithAgentDone(r) ==
    /\ ImplicitCount(r.st) <= MaxImplicitEdges
    /\ store' = r.st
    /\ last' = [op |-> "enrich_with_agent", raised |-> r.raised, res |-> r.res]

\* enrich_with_agent called on one node of the index.  `untracked` is read
\* only where the repository tracks no file at the node's source path.
EnrichWithAgent(node_id, dirs, untracked, answer) ==
    /\ (\E n \in read_node(store, node_id, dirs) :
           SourceDocument(commits[HEAD], n.source_file, "") # "") => untracked = ""
    /\ EnrichWithAgentDone(
           enrich_with_agent(store, commits[HEAD], node_id, dirs, untracked, answer))
    /\ UNCHANGED <<commits, now, mergeVars, busVars, queryVars, disk>>

InitIndex ==
    /\ commits = <<EmptyTree>>
    /\ store = EmptyStore
    /\ now = 1
    /\ last = NoLast

InitMerge ==
    /\ sources = <<>>
    /\ out = EmptyStore
    /\ merges = 0
    /\ mlast = NoLast

\* InMemoryEventBus.__init__: defaultdict(list), no handler for any type
NewBus == [event_type \in {"DocumentDetected", "DocumentParsed", "DocumentIndexed"} |-> <<>>]

InitBus ==
    /\ bus = NewBus
    /\ blast = NoLast

InitQuery ==
    /\ loader = NewLoader(TRUE)
    /\ llast = NoLast

\* No manifest.json yet and no write in progress
NoFile == [text |-> <<>>, exists |-> FALSE, pc |-> "idle", pending |-> <<>>,
           before |-> <<>>, data |-> <<>>]

InitDisk == disk = NoFile

Init == InitIndex /\ InitMerge /\ InitBus /\ InitQuery /\ InitDisk

Next ==
    \/ \E path \in Paths, content \in FileContents : GitAdd(path, content)
    \/ \E path \in Paths, content \in FileContents : CommitWrite(path, content)
    \/ \E path \in Paths : CommitDelete(path)
    \/ \E old, new \in Paths : CommitRename(old, new)
    \/ \E old, new \in Paths, content \in EditedContents : CommitRenameEdited(old, new, content)
    \/ \E path \in Paths, cfg \in IndexConfigs : IndexDocument(path, cfg[1], cfg[2])
    \/ \E cfg \in IndexConfigs : IndexIncremental(cfg[1], cfg[2])
    \/ \E answer \in AgentAnswers({<<[target |-> <<"Entity", "A">>]>>}) :
          \* every node of this index is an entity: one listing order of nodes/
          EnrichWithAgent(<<"Entity", "A">>, <<"entity", "command">>, "", answer)

Spec == Init /\ [][Next]_vars

(***************************************************************************)
(* BR-MERGE-001: merge conflict resolution (domain rules).                 *)
(***************************************************************************)
ConflictResult(winner_index, reason) == [winner_index |-> winner_index, reason |-> reason]

\* The loop of resolve_node_conflict over candidates[1:], carrying the best
\* index and timestamp so far: a later candidate takes over only when its
\* indexed_at is strictly greater.
RECURSIVE LastWriteScan(_, _, _, _)
LastWriteScan(candidates, i, best_idx, best_ts) ==
    IF i > Len(candidates) THEN best_idx
    ELSE IF candidates[i].indexed_at > best_ts
         THEN LastWriteScan(candidates, i + 1, i, candidates[i].indexed_at)
         ELSE LastWriteScan(candidates, i + 1, best_idx, best_ts)

\* The scan as it would be with >= in place of >: of the candidates tied
\* for the latest indexed_at the last one is kept.
RECURSIVE LastWriteScanLastTie(_, _, _, _)
LastWriteScanLastTie(candidates, i, best_idx, best_ts) ==
    IF i > Len(candidates) THEN best_idx
    ELSE IF candidates[i].indexed_at >= best_ts
         THEN LastWriteScanLastTie(candidates, i + 1, i, candidates[i].indexed_at)
         ELSE LastWriteScanLastTie(candidates, i + 1, best_idx, best_ts)

resolve_node_conflict_LastTieWins(candidates) ==
    IF Len(candidates) = 1 THEN ConflictResult(1, "single")
    ELSE IF Cardinality({candidates[i].source_hash : i \in DOMAIN candidates}) = 1
         THEN ConflictResult(1, "identical")
         ELSE ConflictResult(LastWriteScanLastTie(candidates, 2, 1, candidates[1].indexed_at),
                             "last-write-wins")

\* resolve_node_conflict; winner_index counts from 1 here (0 in the code)
resolve_node_conflict(candidates) ==
    IF Len(candidates) = 1 THEN ConflictResult(1, "single")
    ELSE IF Cardinality({candidates[i].source_hash : i \in DOMAIN candidates}) = 1
         THEN ConflictResult(1, "identical")
         ELSE ConflictResult(LastWriteScan(candidates, 2, 1, candidates[1].indexed_at),
                             "last-write-wins")

\* resolve_deletion: <<should_delete, warning>>
resolve_deletion(present_in, modified_after_deletion) ==
    IF \A i \in DOMAIN present_in : present_in[i] THEN <<FALSE, "">>
    ELSE <<TRUE, IF modified_after_deletion
                 THEN "Node was modified in another index after deletion" ELSE "">>

(***************************************************************************)
(* CMD-004 merge_index.                                                    *)
(***************************************************************************)
MergeResult(success, total_nodes, total_edges, total_embeddings, conflicts_resolved, error) ==
    [success |-> success, total_nodes |-> total_nodes, total_edges |-> total_edges,
     total_embeddings |-> total_embeddings, conflicts_resolved |-> conflicts_resolved,
     error |-> error]

MergeFailure(error) == MergeResult(FALSE, 0, 0, 0, 0, error)

\* m.version.split(".")[0] of a semver kept as <<major, minor, patch>>
Major(version) == version[1]

\* _validate_compatibility: the error, or "" for None
_validate_compatibility(manifests) ==
    IF Cardinality({Major(manifests[i].version) : i \in DOMAIN manifests}) > 1
    THEN "INCOMPATIBLE_VERSION"
    ELSE IF Cardinality({manifests[i].embedding_model : i \in DOMAIN manifests} \ {""}) > 1
    THEN "INCOMPATIBLE_EMBEDDING_MODEL"
    ELSE IF Cardinality({manifests[i].structure : i \in DOMAIN manifests}) > 1
    THEN "INCOMPATIBLE_STRUCTURE"
    ELSE ""

\* The (idx, node) pairs of every source in source order: the order in which
\* all_nodes_by_id is filled.  node_dirs[idx] is the order in which the nodes/
\* directory of source idx lists its sub-directories.
RECURSIVE AllNodes(_, _, _)
AllNodes(srcs, idx, node_dirs) ==
    IF idx > Len(srcs) THEN <<>>
    ELSE LET nodes == read_all_nodes(srcs[idx], node_dirs[idx])
         IN  [i \in DOMAIN nodes |-> [idx |-> idx, node |-> nodes[i]]]
             \o AllNodes(srcs, idx + 1, node_dirs)

\* The keys of all_nodes_by_id in insertion order
RECURSIVE FirstSeen(_, _)
FirstSeen(pairs, seen) ==
    IF pairs = <<>> THEN <<>>
    ELSE IF Head(pairs).node.id \in seen THEN FirstSeen(Tail(pairs), seen)
         ELSE <<Head(pairs).node.id>> \o FirstSeen(Tail(pairs), seen \cup {Head(pairs).node.id})

\* all_nodes_by_id[node_id]
Candidates(pairs, node_id) == SeqFilter(pairs, {c \in Range(pairs) : c.node.id = node_id})

conflict_dicts(candidates) ==
    [i \in DOMAIN candidates |->
        [source_hash |-> candidates[i].node.source_hash,
         indexed_at |-> candidates[i].node.indexed_at]]

\* The conflict test as it would be without the comparison of the hashes:
\* every node id held by more than one source counts as a conflict.
IsRealConflict_AnyDuplicate(candidates) ==
    Len(candidates) > 1

IsRealConflict(candidates) ==
    /\ Len(candidates) > 1
    /\ Cardinality({candidates[i].node.source_hash : i \in DOMAIN candidates}) > 1

\* The candidate merge_index takes for one node id (step 2 of the command)
MergedCandidate(candidates) ==
    IF Len(candidates) = 1 THEN candidates[1]
    ELSE IF ~IsRealConflict(candidates) THEN candidates[1]
    ELSE candidates[resolve_node_conflict(conflict_dicts(candidates)).winner_index]

\* The source whose embeddings are taken for one node id (step 4)
WinnerSource(candidates) ==
    IF Len(candidates) = 1 THEN candidates[1].idx
    ELSE candidates[resolve_node_conflict(conflict_dicts(candidates)).winner_index].idx

\* Step 3: the edges of the sources in order, without those that have an
\* endpoint outside the merged node set and without repeated keys
RECURSIVE MergeEdges(_, _, _)
MergeEdges(edges, merged_node_ids, seen_edges) ==
    IF edges = <<>> THEN <<>>
    ELSE LET edge == Head(edges) IN
         IF edge.from_node \notin merged_node_ids \/ edge.to_node \notin merged_node_ids
         THEN MergeEdges(Tail(edges), merged_node_ids, seen_edges)
         ELSE IF EdgeKey(edge) \in seen_edges
         THEN MergeEdges(Tail(edges), merged_node_ids, seen_edges)
         ELSE <<edge>> \o MergeEdges(Tail(edges), merged_node_ids, seen_edges \cup {EdgeKey(edge)})

\* The level of the merged manifest: the weakest level of the sources
MergedLevel(manifests) ==
    IF \A i \in DOMAIN manifests : manifests[i].index_level = "L3" THEN "L3"
    ELSE IF \A i \in DOMAIN manifests : manifests[i].index_level \in {"L2", "L3"} THEN "L2"
    ELSE "L1"

RECURSIVE FirstModel(_)
FirstModel(manifests) ==
    IF manifests = <<>> THEN ""
    ELSE IF Head(manifests).embedding_model # "" THEN Head(manifests).embedding_model
    ELSE FirstModel(Tail(manifests))

\* emb_dims: the dimensions of the first manifest that names a model
RECURSIVE FirstDimensions(_)
FirstDimensions(manifests) ==
    IF manifests = <<>> THEN 0
    ELSE IF Head(manifests).embedding_model # "" THEN Head(manifests).embedding_dimensions
    ELSE FirstDimensions(Tail(manifests))

\* The whole command: the index at output_path after it, the MergeResult,
\* and the merged lists it wrote (empty when it failed).
MergeOutcome(st, result, nodes, edges, embeddings) ==
    [out |-> st, result |-> result, merged_nodes |-> nodes, merged_edges |-> edges,
     merged_embeddings |-> embeddings]

\* Step 5 and the end of the command: write the merged lists and the
\* manifest to output_path, and return the statistics
WriteMerged(output, manifests, merged_nodes, merged_edges, merged_embeddings, conflicts, t) ==
    MergeOutcome(
        write_manifest(
            WriteEmbeddingsIfAny(
                AppendEdgesIfAny(write_nodes(output, merged_nodes), merged_edges),
                merged_embeddings),
            IndexManifest(MergedLevel(manifests), 0, t, "kdd-merge", FirstModel(manifests),
                          FirstDimensions(manifests), Len(merged_nodes), Len(merged_edges),
                          Len(merged_embeddings))),
        MergeResult(TRUE, Len(merged_nodes), Len(merged_edges), Len(merged_embeddings),
                    conflicts, ""),
        merged_nodes, merged_edges, merged_embeddings)

\* Steps 2 to 5 once the conflicts are accepted: merge nodes, edges and
\* embeddings, then write them
MergeAndWrite(srcs, output, manifests, pairs, ids, conflicts_resolved, emb_dirs, t) ==
    WriteMerged(
        output, manifests,
        [i \in DOMAIN ids |-> MergedCandidate(Candidates(pairs, ids[i])).node],
        MergeEdges(FlattenSeq([i \in DOMAIN srcs |-> read_edges(srcs[i])]), Range(ids), {}),
        FlattenSeq([i \in DOMAIN ids |->
            read_embeddings(srcs[WinnerSource(Candidates(pairs, ids[i]))],
                            DocIdOf(ids[i]),
                            emb_dirs[WinnerSource(Candidates(pairs, ids[i]))])]),
        conflicts_resolved, t)

\* merge_index as it would be if every resolved node were written to the
\* output store inside the node loop: the nodes before the first rejected
\* conflict are on disk when CONFLICT_REJECTED is returned.
merge_index_WritingInTheNodeLoop(srcs, output, conflict_strategy, node_dirs, emb_dirs, t) ==
    IF Len(srcs) < 2
    THEN MergeOutcome(output, MergeFailure("INSUFFICIENT_SOURCES"), <<>>, <<>>, <<>>)
    ELSE IF \E i \in DOMAIN srcs : ~read_manifest(srcs[i]).present
    THEN MergeOutcome(output, MergeFailure("MANIFEST_NOT_FOUND"), <<>>, <<>>, <<>>)
    ELSE LET manifests == [i \in DOMAIN srcs |-> read_manifest(srcs[i])]
             err == _validate_compatibility(manifests)
         IN
    IF err # "" THEN MergeOutcome(output, MergeFailure(err), <<>>, <<>>, <<>>)
    ELSE LET pairs == AllNodes(srcs, 1, node_dirs)
             ids == FirstSeen(pairs, {})
             conflicted == {i \in DOMAIN ids : IsRealConflict(Candidates(pairs, ids[i]))}
         IN
    IF conflict_strategy = "fail_on_conflict" /\ conflicted # {}
    THEN LET first == CHOOSE i \in conflicted : \A j \in conflicted : i <= j
             done == [i \in 1..(first - 1) |-> MergedCandidate(Candidates(pairs, ids[i])).node]
         IN  MergeOutcome(write_nodes(output, done), MergeFailure("CONFLICT_REJECTED"),
                          <<>>, <<>>, <<>>)
    ELSE MergeAndWrite(srcs, output, manifests, pairs, ids, Cardinality(conflicted), emb_dirs, t)

merge_index(srcs, output, conflict_strategy, node_dirs, emb_dirs, t) ==
    IF Len(srcs) < 2
    THEN MergeOutcome(output, MergeFailure("INSUFFICIENT_SOURCES"), <<>>, <<>>, <<>>)
    ELSE IF \E i \in DOMAIN srcs : ~read_manifest(srcs[i]).present
    THEN MergeOutcome(output, MergeFailure("MANIFEST_NOT_FOUND"), <<>>, <<>>, <<>>)
    ELSE LET manifests == [i \in DOMAIN srcs |-> read_manifest(srcs[i])]
             err == _validate_compatibility(manifests)
         IN
    IF err # "" THEN MergeOutcome(output, MergeFailure(err), <<>>, <<>>, <<>>)
    ELSE LET pairs == AllNodes(srcs, 1, node_dirs)
             ids == FirstSeen(pairs, {})
             conflicted == {i \in DOMAIN ids : IsRealConflict(Candidates(pairs, ids[i]))}
         IN
    IF conflict_strategy = "fail_on_conflict" /\ conflicted # {}
    THEN MergeOutcome(output, MergeFailure("CONFLICT_REJECTED"), <<>>, <<>>, <<>>)
    ELSE MergeAndWrite(srcs, output, manifests, pairs, ids, Cardinality(conflicted), emb_dirs, t)

(***************************************************************************)
(* The index directories merge_index is run on: indices made by different  *)
(* developers of a repository that has the documents Entity:X and CMD:X.   *)
(***************************************************************************)
NodeEX == <<"Entity", "X">>
NodeCX == <<"CMD", "X">>

\* The manifest of a source index; a model has 8 dimensions
SourceManifest(version, model, structure, level, t) ==
    [present |-> TRUE, version |-> version, kdd_version |-> <<1, 0, 0>>,
     embedding_model |-> model, embedding_dimensions |-> IF model = "" THEN 0 ELSE 8,
     indexed_at |-> t, indexed_by |-> "kdd-cli", structure |-> structure,
     index_level |-> level, stats |-> IndexStats(0, 0, 0), domains |-> <<>>,
     git_commit |-> 1]

WikiEdge(from_node, to_node) ==
    GraphEdge(from_node, to_node, "WIKI_LINK", "X.md", "wiki_link")

\* An index holding Entity:X with the given hash and time and, when hashC
\* is not "", CMD:X; every node has one embedding, of a chunk that holds
\* the content the hash stands for.
DevIndex(manifest, hashE, tE, hashC, tC, edges) ==
    [manifest |-> manifest,
     nodes |-> {GraphNode(NodeEX, "entity", "X.md", hashE, tE)}
               \cup (IF hashC = "" THEN {}
                     ELSE {GraphNode(NodeCX, "command", "cmd/X.md", hashC, tC)}),
     edges |-> edges,
     embeddings |-> {EmbFile("entity", "X", <<Embedding("X", "entity", 0, hashE)>>)}
                    \cup (IF hashC = "" THEN {}
                          ELSE {EmbFile("command", "X", <<Embedding("X", "command", 0, hashC)>>)}),
     enrichments |-> {}]

GoodManifest == SourceManifest(<<1, 0, 0>>, "", "single-domain", "L2", 1)

IndexDirs ==
    { DevIndex(GoodManifest, "e1", 1, "c1", 1,
               <<WikiEdge(NodeEX, NodeCX), WikiEdge(NodeEX, <<"Entity", "G">>)>>),
      DevIndex(GoodManifest, "e2", 2, "", 0, <<WikiEdge(NodeEX, NodeCX)>>),
      DevIndex(GoodManifest, "e1", 2, "c1", 2, <<WikiEdge(NodeEX, NodeCX)>>),
      DevIndex(SourceManifest(<<1, 1, 0>>, "model-a", "single-domain", "L2", 2), "e3", 1, "c2", 2,
               <<WikiEdge(NodeEX, NodeCX), WikiEdge(NodeCX, NodeEX)>>),
      DevIndex(NoManifest, "e1", 1, "", 0, <<>>),
      DevIndex(SourceManifest(<<2, 0, 0>>, "", "single-domain", "L1", 1), "e1", 1, "", 0, <<>>),
      DevIndex(SourceManifest(<<1, 0, 0>>, "model-b", "single-domain", "L2", 1), "e1", 1, "", 0, <<>>),
      DevIndex(SourceManifest(<<1, 0, 0>>, "", "multi-domain", "L1", 1), "e1", 1, "", 0, <<>>) }

ConflictStrategies == {"last_write_wins", "fail_on_conflict"}

\* One more index directory is put on the source_paths list of the next merge
AddSource(dir) ==
    /\ merges < MaxMerges
    /\ Len(sources) < MaxSources
    /\ sources' = Append(sources, dir)
    /\ UNCHANGED <<out, merges, mlast>>
    /\ UNCHANGED <<indexVars, busVars, queryVars, disk>>

\* The orders in which a directory that holds the sub-directories `kinds`
\* may list them: one order when it holds fewer than two
ListingOrders(kinds) ==
    IF Cardinality(kinds) > 1 THEN DirOrders ELSE {<<"entity", "command">>}

\* One listing order for the nodes/ directory of every source, and one for
\* its embeddings/ directory: each directory is listed on its own
NodeOrders(srcs) ==
    {f \in [DOMAIN srcs -> DirOrders] :
        \A i \in DOMAIN srcs : f[i] \in ListingOrders({n.kind : n \in srcs[i].nodes})}

EmbeddingOrders(srcs) ==
    {f \in [DOMAIN srcs -> DirOrders] :
        \A i \in DOMAIN srcs : f[i] \in ListingOrders({e.kind : e \in srcs[i].embeddings})}

\* The index at the output path after the call, and the record of what the
\* call was given, returned and wrote
MergeIndexDone(conflict_strategy, r) ==
    /\ out' = r.out
    /\ mlast' = [op |-> "merge_index", source_paths |-> sources,
                 conflict_strategy |-> conflict_strategy,
                 result |-> r.result, merged_nodes |-> r.merged_nodes,
                 merged_edges |-> r.merged_edges,
                 merged_embeddings |-> r.merged_embeddings]

\* merge_index(source_paths, output_path, conflict_strategy)
MergeIndex(conflict_strategy, node_dirs, emb_dirs) ==
    /\ merges < MaxMerges
    /\ MergeIndexDone(conflict_strategy,
                      merge_index(sources, out, conflict_strategy, node_dirs, emb_dirs, now))
    /\ merges' = merges + 1
    /\ UNCHANGED sources
    /\ UNCHANGED <<indexVars, busVars, queryVars, disk>>

NextMerge ==
    \/ \E dir \in IndexDirs : AddSource(dir)
    \/ \E conflict_strategy \in ConflictStrategies,
          node_dirs \in NodeOrders(sources), emb_dirs \in EmbeddingOrders(sources) :
           MergeIndex(conflict_strategy, node_dirs, emb_dirs)

SpecMerge == Init /\ [][NextMerge]_vars

(***************************************************************************)
(* InMemoryEventBus: synchronous publish/subscribe.                        *)
(***************************************************************************)
\* The domain events index_document publishes
EventTypes == {"DocumentDetected", "DocumentParsed", "DocumentIndexed"}

\* An event: its type and the document it is about
Event(event_type, source_path) == [type |-> event_type, source_path |-> source_path]

\* The callables subscribed in the model: two that return and one that raises
Handlers == {"h1", "h2", "failing"}

HandlerRaises(handler) == handler = "failing"

\* subscribe: self._handlers[event_type].append(handler)
subscribe(b, event_type, handler) == [b EXCEPT ![event_type] = Append(@, handler)]

\* What a dispatch did: the handler calls made, in order, and whether an
\* exception left publish
Dispatched(calls, raised) == [calls |-> calls, raised |-> raised]

CallThen(call, rest) == Dispatched(<<call>> \o rest.calls, rest.raised)

\* The loop of publish: for handler in handlers: handler(event).  An
\* exception raised by a handler leaves the loop and publish.
RECURSIVE Dispatch(_, _)
Dispatch(hs, event) ==
    IF hs = <<>> THEN Dispatched(<<>>, FALSE)
    ELSE IF HandlerRaises(Head(hs))
    THEN Dispatched(<<[handler |-> Head(hs), event |-> event]>>, TRUE)
    ELSE CallThen([handler |-> Head(hs), event |-> event], Dispatch(Tail(hs), event))

\* publish: self._handlers.get(type(event), [])
publish(b, event) == Dispatch(b[event.type], event)

SubscriptionCount(b) == Len(b["DocumentDetected"]) + Len(b["DocumentParsed"])
                        + Len(b["DocumentIndexed"])

\* bus.subscribe(event_type, handler)
Subscribe(event_type, handler) ==
    /\ SubscriptionCount(bus) < MaxSubscriptions
    /\ bus' = subscribe(bus, event_type, handler)
    /\ blast' = [op |-> "subscribe"]
    /\ UNCHANGED <<indexVars, mergeVars, queryVars, disk>>

PublishDone(event, d) ==
    blast' = [op |-> "publish", event |-> event, calls |-> d.calls, raised |-> d.raised]

\* bus.publish(event)
Publish(event) ==
    /\ PublishDone(event, publish(bus, event))
    /\ UNCHANGED <<bus, indexVars, mergeVars, queryVars, disk>>

NextBus ==
    \/ \E event_type \in EventTypes, handler \in Handlers : Subscribe(event_type, handler)
    \/ \E event_type \in EventTypes : Publish(Event(event_type, "A.md"))

SpecBus == Init /\ [][NextBus]_vars

(***************************************************************************)
(* index_document given an event bus.                                      *)
(***************************************************************************)
\* What a call given a bus did: the store, the exception that left the
\* call, the result returned, the event types published in order and the
\* handler calls made
OnBus(st, raised, res, published, calls) ==
    [st |-> st, raised |-> raised, res |-> res, published |-> published, calls |-> calls]

\* Step 8: the artifacts are written (r.st); DocumentIndexed is published,
\* then the result is returned.  An exception of a handler leaves the call
\* after the writes.
AfterWrites(r, calls, d3) ==
    IF d3.raised
    THEN OnBus(r.st, "HandlerError", Raised(r.st, "HandlerError").res,
               <<"DocumentDetected", "DocumentParsed", "DocumentIndexed">>, calls \o d3.calls)
    ELSE OnBus(r.st, "", r.res,
               <<"DocumentDetected", "DocumentParsed", "DocumentIndexed">>, calls \o d3.calls)

\* DocumentParsed has been published: steps 5 to 7, then DocumentIndexed
AfterParsed(st, r, b, relative_path, calls, d2) ==
    IF d2.raised
    THEN OnBus(st, "HandlerError", Raised(st, "HandlerError").res,
               <<"DocumentDetected", "DocumentParsed">>, calls \o d2.calls)
    ELSE AfterWrites(r, calls \o d2.calls, publish(b, Event("DocumentIndexed", relative_path)))

\* As AfterDetected, but going from DocumentDetected straight to the writes
\* and DocumentIndexed
AfterDetected_WithoutParsed(st, r, b, relative_path, d1) ==
    IF d1.raised
    THEN OnBus(st, "HandlerError", Raised(st, "HandlerError").res, <<"DocumentDetected">>, d1.calls)
    ELSE [AfterWrites(r, d1.calls, publish(b, Event("DocumentIndexed", relative_path)))
            EXCEPT !.published = <<"DocumentDetected", "DocumentIndexed">>]

\* DocumentDetected has been published: the KDDDocument is built and
\* DocumentParsed is published
AfterDetected(st, r, b, relative_path, d1) ==
    IF d1.raised
    THEN OnBus(st, "HandlerError", Raised(st, "HandlerError").res, <<"DocumentDetected">>, d1.calls)
    ELSE AfterParsed(st, r, b, relative_path, d1.calls,
                     publish(b, Event("DocumentParsed", relative_path)))

\* The call with event_bus = b, r being what the same call does to the
\* store and returns without a bus: the returns of steps 1 to 3 and the
\* exceptions of steps 1 and 2 come before any event
WithEvents(st, r, b, relative_path) ==
    IF r.raised # "" \/ ~r.res.success
    THEN OnBus(r.st, r.raised, r.res, <<>>, <<>>)
    ELSE AfterDetected(st, r, b, relative_path,
                       publish(b, Event("DocumentDetected", relative_path)))

index_document_on_bus(st, tree, file_path, index_level, has_model, t, b) ==
    WithEvents(st, index_document(st, tree, file_path, index_level, has_model, t), b,
               IF file_path \in InsideSpecsRoot THEN relative_to[file_path] ELSE file_path)

IndexDocumentOnBusDone(path, e) ==
    /\ store' = e.st
    /\ last' = [op |-> "index_document", path |-> path, raised |-> e.raised, res |-> e.res]
    /\ blast' = [op |-> "index_document", published |-> e.published, calls |-> e.calls,
                 raised |-> e.raised, res |-> e.res]

\* index_document called on one file of the working tree with the bus
IndexDocumentOnBus(path, index_level, has_model) ==
    /\ now <= MaxClock
    /\ IndexDocumentOnBusDone(path,
           index_document_on_bus(store, commits[HEAD], path, index_level, has_model, now, bus))
    /\ now' = now + 1
    /\ UNCHANGED <<commits, mergeVars, bus, queryVars, disk>>

\* The repositories the calls given a bus run on: one commit holding an
\* entity with links, a file of an unrecognised kind and a file outside the
\* specs root; or one holding an entity without id and an undecodable file
EventRepositories ==
    { <<EmptyTree,
        TreeWith(TreeWith(TreeWith(EmptyTree, "specs/A.md",
            FileContent("utf-8", "A", "entity", <<"B", "CMD-1", "B">>, <<"B">>, <<>>,
                        <<"links B, CMD-1">>)),
            "specs/B.md", FileContent("utf-8", "", "note", <<"A">>, <<>>, <<>>, <<>>)),
            "README.md",
            FileContent("utf-8", "", "entity", <<>>, <<>>, <<>>, <<"summary", "details">>))>>,
      <<EmptyTree,
        TreeWith(TreeWith(EmptyTree, "specs/A.md",
            FileContent("utf-8", "", "entity", <<>>, <<>>, <<>>, <<"summary", "details">>)),
            "specs/B.md", FileContent("binary", "", "", <<>>, <<>>, <<>>, <<>>))>> }

InitEvents ==
    /\ commits \in EventRepositories
    /\ store = EmptyStore
    /\ now = 1
    /\ last = NoLast
    /\ InitMerge
    /\ InitBus
    /\ InitQuery
    /\ InitDisk

NextEvents ==
    \/ \E event_type \in EventTypes, handler \in Handlers : Subscribe(event_type, handler)
    \/ \E path \in Paths, cfg \in IndexConfigs : IndexDocumentOnBus(path, cfg[1], cfg[2])

SpecEvents == InitEvents /\ [][NextEvents]_vars

(***************************************************************************)
(* The artifact store used through its port: nodes, edges and embeddings   *)
(* are written and documents are deleted by their document id.             *)
(***************************************************************************)
NodeEA == <<"Entity", "A">>

\* The documents written: an entity X, a command X and an entity A, each
\* with its hash and the text of its one chunk
StoreDocuments ==
    { [kind |-> "entity", id |-> "X", file |-> "X.md", hash |-> "e1", chunk |-> "entity X"],
      [kind |-> "command", id |-> "X", file |-> "cmd/X.md", hash |-> "c1",
       chunk |-> "command X"],
      [kind |-> "entity", id |-> "A", file |-> "A.md", hash |-> "a1", chunk |-> "entity A"] }

StoreEdges == {WikiEdge(NodeEX, NodeEA), WikiEdge(NodeEA, NodeCX), WikiEdge(NodeCX, NodeEX)}

\* artifact_store.write_node(node)
WriteNode(doc) ==
    /\ store' = write_node(store, extract_node(doc.kind, doc.id, doc.file, doc.hash, now))
    /\ last' = [op |-> "write_node"]
    /\ UNCHANGED <<commits, now, mergeVars, busVars, queryVars, disk>>

\* artifact_store.append_edges(edges)
AppendEdges(edges) ==
    /\ Len(store.edges) + Len(edges) <= MaxStoredEdges
    /\ store' = append_edges(store, edges)
    /\ last' = [op |-> "append_edges"]
    /\ UNCHANGED <<commits, now, mergeVars, busVars, queryVars, disk>>

\* artifact_store.write_embeddings(embeddings)
WriteEmbeddings(doc) ==
    /\ store' = write_embeddings(store, <<Embedding(doc.id, doc.kind, 0, doc.chunk)>>)
    /\ last' = [op |-> "write_embeddings"]
    /\ UNCHANGED <<commits, now, mergeVars, busVars, queryVars, disk>>

\* artifact_store.delete_document_artifacts(document_id)
DeleteDocumentArtifacts(document_id, dirs) ==
    /\ store' = delete_document_artifacts(store, document_id, dirs)
    /\ last' = [op |-> "delete_document_artifacts", document_id |-> document_id,
                before |-> store]
    /\ UNCHANGED <<commits, now, mergeVars, busVars, queryVars, disk>>

NextStore ==
    \/ \E doc \in StoreDocuments : WriteNode(doc)
    \/ \E e \in StoreEdges : AppendEdges(<<e>>)
    \/ \E doc \in StoreDocuments : WriteEmbeddings(doc)
    \/ \E document_id \in {"X", "A", "B"}, dirs \in DirOrders :
          DeleteDocumentArtifacts(document_id, dirs)
    \/ \E node_id \in {NodeEX}, dirs \in DirOrders,
          answer \in AgentAnswers({<<>>, <<[target |-> NodeEA]>>}) :
          \* the spec file of the node is on disk and decodes
          EnrichWithAgent(node_id, dirs, "utf-8", answer)

SpecStore == Init /\ [][NextStore]_vars

(***************************************************************************)
(* The loader reading an index directory that the write side changes.      *)
(***************************************************************************)
\* The document and the edges written: Entity:X with a WIKI_LINK and a
\* DOMAIN_RELATION to Entity:A (a link in its Relations table)
LoaderDocuments ==
    {[kind |-> "entity", id |-> "X", file |-> "X.md", hash |-> "e1", chunk |-> "entity X"]}

\* The edges of the document, appended by one append_edges call as
\* index_document does
LoaderEdges ==
    << WikiEdge(NodeEX, NodeEA),
       GraphEdge(NodeEX, NodeEA, "DOMAIN_RELATION", "X.md", "section_content") >>

\* The manifests indexing runs leave: the time of the run and its counts
LoaderManifests ==
    { IndexManifest("L2", 1, 1, "kdd-cli", "", 0, 0, 0, 0),
      IndexManifest("L2", 1, 1, "kdd-cli", "", 0, 1, 0, 1),
      IndexManifest("L2", 1, 2, "kdd-cli", "", 0, 1, 0, 1) }

\* artifact_store.write_manifest(manifest)
WriteManifest(manifest) ==
    /\ store' = write_manifest(store, manifest)
    /\ last' = [op |-> "write_manifest"]
    /\ UNCHANGED <<commits, now, mergeVars, busVars, queryVars, disk>>

LoadDone(force, r) ==
    /\ loader' = r.loader
    /\ llast' = [op |-> "load", force |-> force, returned |-> r.returned,
                 seen |-> loader.loaded_manifest_hash]

\* loader.load(force=force); loader.reload() is Load(TRUE)
Load(force, node_dirs, emb_dirs) ==
    /\ LoadDone(force, load(loader, store, force, node_dirs, emb_dirs))
    /\ UNCHANGED <<indexVars, mergeVars, busVars, disk>>

InitLoader ==
    /\ InitIndex /\ InitMerge /\ InitBus
    /\ loader \in {NewLoader(TRUE), NewLoader(FALSE)}
    /\ llast = NoLast
    /\ InitDisk

NextLoader ==
    \/ \E doc \in LoaderDocuments : WriteNode(doc)
    \/ AppendEdges(LoaderEdges)
    \/ \E doc \in LoaderDocuments : WriteEmbeddings(doc)
    \/ \E document_id \in {"X"}, dirs \in DirOrders : DeleteDocumentArtifacts(document_id, dirs)
    \/ \E manifest \in LoaderManifests : WriteManifest(manifest)
    \/ \E force \in BOOLEAN, node_dirs \in DirOrders, emb_dirs \in DirOrders :
          Load(force, node_dirs, emb_dirs)
    \/ \E node_id \in {NodeEX}, dirs \in DirOrders,
          answer \in AgentAnswers({<<>>, <<[target |-> NodeEA]>>}) :
          \* the spec file of the node is on disk and decodes
          EnrichWithAgent(node_id, dirs, "utf-8", answer)

SpecLoader == InitLoader /\ [][NextLoader]_vars

(***************************************************************************)
(* BR-LAYER-001: the layer_violation flag of the edges an entity document  *)
(* yields.                                                                 *)
(***************************************************************************)
KDDLayer == {"00-requirements", "01-domain", "02-behavior", "03-experience", "04-verification"}

\* KDDLayer.numeric: int(self.value[:2])
numeric ==
    [layer \in KDDLayer |->
        CASE layer = "00-requirements" -> 0
          [] layer = "01-domain" -> 1
          [] layer = "02-behavior" -> 2
          [] layer = "03-experience" -> 3
          [] layer = "04-verification" -> 4]

is_layer_violation(origin_layer, destination_layer) ==
    IF origin_layer = "00-requirements" THEN FALSE
    ELSE numeric[origin_layer] < numeric[destination_layer]

\* _guess_layer_from_node_id: layer_map.get(prefix), "" for None
_guess_layer_from_node_id(node_id) ==
    CASE node_id[1] \in {"Entity", "Event", "BR"} -> "01-domain"
      [] node_id[1] \in {"BP", "XP", "CMD", "QRY", "PROC", "UC"} -> "02-behavior"
      [] node_id[1] \in {"UIView", "UIComp"} -> "03-experience"
      [] node_id[1] = "REQ" -> "04-verification"
      [] node_id[1] \in {"OBJ", "PRD", "ADR"} -> "00-requirements"
      [] OTHER -> ""

\* The GraphEdge with its layer_violation field
WithViolation(edge, violation) == edge @@ [layer_violation |-> violation]

\* build_wiki_link_edges: violation = is_layer_violation(from_layer,
\* dest_layer) if dest_layer is not None, False otherwise
LayerViolation(from_layer, dest_layer) ==
    IF dest_layer = "" THEN FALSE ELSE is_layer_violation(from_layer, dest_layer)

WikiLinkEdgesOfLayer(edges, from_layer) ==
    [i \in DOMAIN edges |->
        WithViolation(edges[i],
            LayerViolation(from_layer, _guess_layer_from_node_id(edges[i].to_node)))]

\* The edges _extract_relation_edges and _extract_event_edges build keep
\* the default of layer_violation
DefaultViolation(edges) == [i \in DOMAIN edges |-> WithViolation(edges[i], FALSE)]

\* A section of a parsed document: its heading and the text under it
Section(heading, content) == [heading |-> heading, content |-> content]

\* "\n".join(s.content for s in document.sections)
RECURSIVE FullContent(_)
FullContent(sections) ==
    IF sections = <<>> THEN ""
    ELSE IF Len(sections) = 1 THEN Head(sections).content
    ELSE Head(sections).content \o "\n" \o FullContent(Tail(sections))

\* The first section whose lowered heading is one of targets, or None
FirstOfTargets(sections, targets) ==
    IF \E i \in DOMAIN sections : lower(Chars(sections[i].heading)) \in targets
    THEN Some(sections[CHOOSE i \in DOMAIN sections :
                           /\ lower(Chars(sections[i].heading)) \in targets
                           /\ \A j \in 1..(i - 1) :
                                  lower(Chars(sections[j].heading)) \notin targets])
    ELSE None

\* find_section: targets = {n.lower() for n in names}
find_section(sections, names) ==
    FirstOfTargets(sections, {lower(Chars(n)) : n \in names})

\* [line.strip() for line in lines if line.strip().startswith("|")]
RECURSIVE TableLines(_)
TableLines(lines) ==
    IF lines = <<>> THEN <<>>
    ELSE (IF startswith(str_strip(Head(lines)), "|") THEN <<str_strip(Head(lines))>>
          ELSE <<>>)
         \o TableLines(Tail(lines))

\* [c.strip() for c in parts]
StripEach(parts) == [i \in DOMAIN parts |-> str_strip(parts[i])]

\* [c.strip() for c in line.strip("|").split("|")].  The headers are
\* stripped of the backquote too, a character no text of the model holds.
Cells(line) == StripEach(split(strip_chars(line, {"|"}), "|"))

\* The last of the first n headers equal to headers[i]
LastSame(headers, i, n) ==
    CHOOSE j \in i..n : /\ headers[j] = headers[i]
                        /\ \A k \in (j + 1)..n : headers[k] # headers[i]

\* dict(zip(headers, cells)) where len(cells) >= len(headers): the keys in
\* the order of their first occurrence, each with the cell of its last
RECURSIVE DictOfZip(_, _, _)
DictOfZip(headers, cells, i) ==
    IF i > Len(headers) THEN <<>>
    ELSE (IF \E j \in 1..(i - 1) : headers[j] = headers[i] THEN <<>>
          ELSE <<[key |-> headers[i], value |-> cells[LastSame(headers, i, Len(headers))]]>>)
         \o DictOfZip(headers, cells, i + 1)

\* for line in lines[2:]: the rows with at least as many cells as headers
RECURSIVE TableRows(_, _)
TableRows(headers, lines) ==
    IF lines = <<>> THEN <<>>
    ELSE (IF Len(Cells(Head(lines))) >= Len(headers)
          THEN <<DictOfZip(headers, Cells(Head(lines)), 1)>>
          ELSE <<>>)
         \o TableRows(headers, Tail(lines))

\* The rows of the table whose lines are given: the first line holds the
\* headers, the second is skipped
RowsOfLines(lines) ==
    IF Len(lines) < 2 THEN <<>> ELSE TableRows(Cells(lines[1]), SubSeq(lines, 3, Len(lines)))

\* _parse_table_rows
_parse_table_rows(content) == RowsOfLines(TableLines(splitlines(str_strip(content))))

\* for val in row.values(): the target of links[0] of the first value that
\* holds a link, if there is one
RECURSIVE RowTarget(_)
RowTarget(row) ==
    IF row = <<>> THEN <<>>
    ELSE IF Len(extract_wiki_links(Head(row).value)) > 0
    THEN <<extract_wiki_links(Head(row).value)[1].target>>
    ELSE RowTarget(Tail(row))

\* The loop over the rows of the Relations table
RECURSIVE RowTargets(_)
RowTargets(rows) ==
    IF rows = <<>> THEN <<>> ELSE RowTarget(Head(rows)) \o RowTargets(Tail(rows))

\* The loop over document.sections: the event edges of every section
\* headed Lifecycle Events
RECURSIVE LifecycleEventEdges(_, _, _)
LifecycleEventEdges(sections, from_node, source_file) ==
    IF sections = <<>> THEN <<>>
    ELSE (IF lower(Chars(Head(sections).heading))
                 \in {Chars("eventos del ciclo de vida"), Chars("lifecycle events")}
          THEN _extract_event_edges(extract_wiki_link_targets(Head(sections).content),
                                    from_node, source_file)
          ELSE <<>>)
         \o LifecycleEventEdges(Tail(sections), from_node, source_file)

\* The relation edges of the section find_section found
RelationEdgesOf(rel_sec, from_node, source_file) ==
    IF rel_sec.given
    THEN _extract_relation_edges(RowTargets(_parse_table_rows(rel_sec.items.content)),
                                 from_node, source_file)
    ELSE <<>>

\* EntityExtractor.extract_edges of a document in layer from_layer: the
\* wiki links of all the content in the order of the document, the
\* relation edges of the first Relations section, the event edges of the
\* Lifecycle Events sections; then _deduplicate_edges
EntityExtractEdges(from_layer, doc_id, source_path, sections) ==
    _deduplicate_edges(
        WikiLinkEdgesOfLayer(
            build_wiki_link_edges(extract_wiki_link_targets(FullContent(sections)),
                                  make_node_id("entity", doc_id), source_path, {}),
            from_layer)
        \o DefaultViolation(
               RelationEdgesOf(find_section(sections,
                                            {"Relaciones", "Relations", "Relationships"}),
                               make_node_id("entity", doc_id), source_path))
        \o DefaultViolation(
               LifecycleEventEdges(sections, make_node_id("entity", doc_id), source_path)),
        {})

\* Relations sections: a table; a lower-case heading and two rows; prose
\* with a link under an upper-case heading; two columns of one name; a
\* table without the separator line; a link with an alias in a cell; a row
\* with a cell too few and a link in a cell beyond the headers
RelationSections ==
    { Section("Relations", "| Relation | Target |\n|---|---|\n| shown in | [[UI-1]] |"),
      Section("relations",
              "| Relation | Target |\n|---|---|\n| has | [[B]] |\n| checked by | [[REQ-1]] |"),
      Section("RELACIONES", "An order belongs to [[UC-1]]."),
      Section("Relationships", "| Target | Target |\n|---|---|\n| [[B]] | [[CMD-1]] |"),
      Section("Relations", "| Relation | Target |\n| has | [[B]] |\n| uses | [[CMD-1]] |"),
      Section("Relations", "| Relation | Target |\n|---|---|\n| has | [[B|the cart]] |"),
      Section("Relations",
              "| Relation | Target |\n|---|---|\n| [[UC-1]] |\n| has | x | [[REQ-1]] |") }

\* Lifecycle Events sections: a list, and a table under a lower-case
\* Spanish heading; a section of another heading that names an event
EventSections ==
    { Section("Lifecycle Events", "- [[EVT-1]]\n- [[B]]"),
      Section("eventos del ciclo de vida", "| Event |\n|---|\n| [[EVT-2]] |\n| [[EVT-1]] |"),
      Section("Lifecycle", "Emits [[EVT-1]].") }

\* The entity documents: a Description, a Relations and a Lifecycle Events
\* section under the longest description; the sections in the opposite
\* order under the other descriptions; and two with two Relations and two
\* Lifecycle Events sections
EntityDocuments ==
    {<<Section("Description", "Uses [[CMD-1]] and [[billing::PRD-1|the plan]]."),
       relations, events>> :
        relations \in RelationSections, events \in EventSections}
    \cup {<<Section("Lifecycle Events", "- [[EVT-1]]\n- [[B]]"), relations,
            Section("Description", body)>> :
        relations \in RelationSections, body \in {"", "See [[B]]."}}
    \cup {<<Section("Relations", "See [[B]]."),
            Section("relations", "| Relation | Target |\n|---|---|\n| has | [[UI-1]] |")>>,
          <<Section("Lifecycle Events", "[[EVT-1]]"),
            Section("LIFECYCLE EVENTS", "[[EVT-2]] [[EVT-1]]")>>}

\* extractor.extract_edges(document) on an entity document
ExtractEdges(from_layer, sections) ==
    /\ last' = [op |-> "extract_edges", from_layer |-> from_layer,
                edges |-> EntityExtractEdges(from_layer, "A", "A.md", sections)]
    /\ UNCHANGED <<commits, store, now, mergeVars, busVars, queryVars, disk>>

NextLayers ==
    \E from_layer \in KDDLayer, sections \in EntityDocuments :
        ExtractEdges(from_layer, sections)

SpecLayers == Init /\ [][NextLayers]_vars

(***************************************************************************)
(* Graph queries: NetworkXGraphStore.traverse and reverse_traverse,        *)
(* retrieve_by_graph (QRY-001) and retrieve_impact (QRY-004).              *)
(***************************************************************************)
MaxDepth == 2

MaxIndexEdges == 3

has_node(g, node_id) == \E n \in g.nodes : n.id = node_id

get_node(g, node_id) == CHOOSE n \in g.nodes : n.id = node_id

_edge_matches(edge, edge_types, respect_layers) ==
    /\ ~(respect_layers /\ edge.layer_violation)
    /\ ~(edge_types.given /\ edge.edge_type \notin Range(edge_types.items))

\* The state of a breadth-first search
Search(visited, collected, queue) ==
    [visited |-> visited, collected |-> collected, queue |-> queue]

\* One for-loop of traverse over the edges of current, outgoing (the
\* neighbour is the target) or incoming (the neighbour is the source)
RECURSIVE VisitEdges(_, _, _, _, _, _)
VisitEdges(t, edges, incoming, dist, edge_types, respect_layers) ==
    IF edges = <<>> THEN t
    ELSE LET edge == Head(edges)
             neighbor == IF incoming THEN edge.from_node ELSE edge.to_node
         IN  VisitEdges(
                 IF ~_edge_matches(edge, edge_types, respect_layers) THEN t
                 ELSE Search(t.visited \cup {neighbor},
                             Append(t.collected, edge),
                             IF neighbor \in t.visited THEN t.queue
                             ELSE Append(t.queue, <<neighbor, dist + 1>>)),
                 Tail(edges), incoming, dist, edge_types, respect_layers)

\* while queue: current, dist = queue.popleft() ...
RECURSIVE TraverseLoop(_, _, _, _, _)
TraverseLoop(g, t, depth, edge_types, respect_layers) ==
    IF t.queue = <<>> THEN t
    ELSE LET current == Head(t.queue)[1]
             dist == Head(t.queue)[2]
         IN  IF dist >= depth
             THEN TraverseLoop(g, [t EXCEPT !.queue = Tail(@)], depth, edge_types,
                               respect_layers)
             ELSE TraverseLoop(g,
                      VisitEdges(
                          VisitEdges([t EXCEPT !.queue = Tail(@)],
                                     outgoing_edges(g, current), FALSE, dist, edge_types,
                                     respect_layers),
                          incoming_edges(g, current), TRUE, dist, edge_types,
                          respect_layers),
                      depth, edge_types, respect_layers)

\* What traverse returns, the nodes as the set visited_nodes that the list
\* is made from
Traversed(g, t) ==
    [nodes |-> {n \in g.nodes : n.id \in t.visited},
     edges |-> _deduplicate_edges(t.collected, {})]

traverse(g, root, depth, edge_types, respect_layers) ==
    IF root \notin Range(g.order) THEN [nodes |-> {}, edges |-> <<>>]
    ELSE Traversed(g, TraverseLoop(g, Search({root}, <<>>, <<<<root, 0>>>>), depth,
                                   edge_types, respect_layers))

\* The state of reverse_traverse's search
ReverseSearch(visited, results, queue) ==
    [visited |-> visited, results |-> results, queue |-> queue]

\* for pred, _, edata in self._graph.in_edges(current, data=True)
RECURSIVE ReverseVisit(_, _, _, _, _)
ReverseVisit(g, t, edges, dist, path) ==
    IF edges = <<>> THEN t
    ELSE LET pred == Head(edges).from_node
             new_path == Append(path, Head(edges))
         IN  ReverseVisit(g,
                 IF pred \in t.visited THEN t
                 ELSE ReverseSearch(
                          t.visited \cup {pred},
                          IF has_node(g, pred)
                          THEN Append(t.results, [node |-> get_node(g, pred), path |-> new_path])
                          ELSE t.results,
                          Append(t.queue, <<pred, dist + 1, new_path>>)),
                 Tail(edges), dist, path)

RECURSIVE ReverseLoop(_, _, _)
ReverseLoop(g, t, depth) ==
    IF t.queue = <<>> THEN t.results
    ELSE LET current == Head(t.queue)[1]
             dist == Head(t.queue)[2]
             path == Head(t.queue)[3]
         IN  IF dist >= depth
             THEN ReverseLoop(g, [t EXCEPT !.queue = Tail(@)], depth)
             ELSE ReverseLoop(g,
                      ReverseVisit(g, [t EXCEPT !.queue = Tail(@)],
                                   incoming_edges(g, current), dist, path),
                      depth)

reverse_traverse(g, root, depth) ==
    IF root \notin Range(g.order) THEN <<>>
    ELSE ReverseLoop(g, ReverseSearch({root}, <<>>, <<<<root, 0, <<>>>>>>), depth)

\* The nodes next to the nodes of frontier in the adjacency _estimate_distance
\* builds from the edge list
Neighbors(frontier, edges) ==
    {e.to_node : e \in {f \in Range(edges) : f.from_node \in frontier}}
        \cup {e.from_node : e \in {f \in Range(edges) : f.to_node \in frontier}}

Unreachable == 999

\* _estimate_distance: breadth-first search from root_id over the edge list,
\* a level at a time
RECURSIVE EstimateFrom(_, _, _, _, _)
EstimateFrom(node_id, edges, frontier, visited, dist) ==
    IF node_id \in frontier THEN dist
    ELSE IF frontier = {} THEN Unreachable
    ELSE EstimateFrom(node_id, edges, Neighbors(frontier, edges) \ visited,
                      visited \cup Neighbors(frontier, edges), dist + 1)

_estimate_distance(node_id, root_id, edges) ==
    EstimateFrom(node_id, edges, {root_id}, {root_id}, 0)

\* 1.0 / (1.0 + dist), as the fraction it is
Score(dist) == [num |-> 1, den |-> 1 + dist]

ScoreLess(a, b) == a.num * b.den < b.num * a.den

_build_snippet(node) == <<node.kind, node.id>>

ScoredNode(node_id, score, snippet, match_source) ==
    [node_id |-> node_id, score |-> score, snippet |-> snippet,
     match_source |-> match_source]

\* list.sort(key=score, reverse=True): stable, the highest score first
RECURSIVE InsertByScore(_, _)
InsertByScore(sorted, item) ==
    IF sorted = <<>> THEN <<item>>
    ELSE IF ScoreLess(Head(sorted).score, item.score) THEN <<item>> \o sorted
    ELSE <<Head(sorted)>> \o InsertByScore(Tail(sorted), item)

RECURSIVE SortByScore(_, _)
SortByScore(items, sorted) ==
    IF items = <<>> THEN sorted
    ELSE SortByScore(Tail(items), InsertByScore(sorted, Head(items)))

\* The orders in which a set can be listed: a Python set is iterated in an
\* order that is not determined by its elements
Orderings(S) ==
    {order \in [1..Cardinality(S) -> S] : \A i, j \in 1..Cardinality(S) : order[i] = order[j] => i = j}

GraphQueryInput(root_node, depth, edge_types, include_kinds, respect_layers) ==
    [root_node |-> root_node, depth |-> depth, edge_types |-> edge_types,
     include_kinds |-> include_kinds, respect_layers |-> respect_layers]

\* The for-loop of retrieve_by_graph over the nodes kept
ScoreNodes(nodes, root_node, edges) ==
    [i \in DOMAIN nodes |->
        ScoredNode(nodes[i].id, Score(_estimate_distance(nodes[i].id, root_node, edges)),
                   _build_snippet(nodes[i]), "graph")]

\* retrieve_by_graph once traverse has returned t, its nodes listed as nodes
GraphQueryResult(g, query, t, nodes) ==
    [raised |-> "",
     center_node |-> get_node(g, query.root_node),
     related_nodes |->
         SortByScore(
             ScoreNodes(
                 SeqFilter(nodes,
                     {n \in Range(nodes) :
                         /\ n.id # query.root_node
                         /\ (query.include_kinds.given /\ query.include_kinds.items # <<>>)
                                => n.kind \in Range(query.include_kinds.items)}),
                 query.root_node, t.edges),
             <<>>),
     edges |-> t.edges]

\* The results retrieve_by_graph can return
retrieve_by_graph(g, query) ==
    IF ~has_node(g, query.root_node)
    THEN {[raised |-> "ValueError", center_node |-> <<>>, related_nodes |-> <<>>,
           edges |-> <<>>]}
    ELSE {GraphQueryResult(g, query,
              traverse(g, query.root_node, query.depth, query.edge_types,
                       query.respect_layers),
              nodes) :
          nodes \in Orderings(traverse(g, query.root_node, query.depth, query.edge_types,
                                       query.respect_layers).nodes)}

AffectedNode(node_id, kind, edge_type) ==
    [node_id |-> node_id, kind |-> kind, edge_type |-> edge_type]

TransitivelyAffected(node_id, kind, path, edge_types) ==
    [node_id |-> node_id, kind |-> kind, path |-> path, edge_types |-> edge_types]

\* Phase 1: one AffectedNode per incoming edge whose source is indexed
RECURSIVE DirectlyAffected(_, _)
DirectlyAffected(g, direct_edges) ==
    IF direct_edges = <<>> THEN <<>>
    ELSE (IF has_node(g, Head(direct_edges).from_node)
          THEN <<AffectedNode(Head(direct_edges).from_node,
                              get_node(g, Head(direct_edges).from_node).kind,
                              Head(direct_edges).edge_type)>>
          ELSE <<>>)
         \o DirectlyAffected(g, Tail(direct_edges))

\* As TransitiveOf, without leaving out the directly affected nodes
TransitiveOf_KeepingDirect(reverse_results, node_id, direct_ids) ==
    [i \in DOMAIN reverse_results |->
             TransitivelyAffected(
                 reverse_results[i].node.id, reverse_results[i].node.kind,
                 <<node_id>> \o [j \in DOMAIN reverse_results[i].path |->
                                    reverse_results[i].path[j].from_node],
                 [j \in DOMAIN reverse_results[i].path |->
                     reverse_results[i].path[j].edge_type])]

\* Phase 2: the results of reverse_traverse that are neither directly
\* affected nor the queried node, each with its path
RECURSIVE TransitiveOf(_, _, _)
TransitiveOf(reverse_results, node_id, direct_ids) ==
    IF reverse_results = <<>> THEN <<>>
    ELSE (IF Head(reverse_results).node.id \in direct_ids \cup {node_id} THEN <<>>
          ELSE <<TransitivelyAffected(
                     Head(reverse_results).node.id, Head(reverse_results).node.kind,
                     <<node_id>> \o [j \in DOMAIN Head(reverse_results).path |->
                                        Head(reverse_results).path[j].from_node],
                     [j \in DOMAIN Head(reverse_results).path |->
                         Head(reverse_results).path[j].edge_type])>>)
         \o TransitiveOf(Tail(reverse_results), node_id, direct_ids)

\* Phase 3: the indexed sources of the VALIDATES edges into an affected node
ScenariosToRerun(g, all_affected_ids) ==
    LET validating == SeqFilter(all_edges(g),
                          {e \in Range(g.adj) :
                              /\ e.edge_type = "VALIDATES"
                              /\ e.to_node \in all_affected_ids
                              /\ has_node(g, e.from_node)})
    IN  [i \in DOMAIN validating |-> validating[i].from_node]

ImpactQueryResult(g, node_id, directly_affected, transitively_affected) ==
    [raised |-> "",
     directly_affected |-> directly_affected,
     transitively_affected |-> transitively_affected,
     scenarios_to_rerun |->
         ScenariosToRerun(g,
             {directly_affected[i].node_id : i \in DOMAIN directly_affected}
                 \cup {transitively_affected[i].node_id : i \in DOMAIN transitively_affected}
                 \cup {node_id})]

WithTransitive(g, node_id, depth, directly_affected) ==
    ImpactQueryResult(g, node_id, directly_affected,
        IF depth > 1
        THEN TransitiveOf(reverse_traverse(g, node_id, depth), node_id,
                          {directly_affected[i].node_id : i \in DOMAIN directly_affected})
        ELSE <<>>)

retrieve_impact(g, node_id, depth) ==
    IF ~has_node(g, node_id)
    THEN [raised |-> "ValueError", directly_affected |-> <<>>,
          transitively_affected |-> <<>>, scenarios_to_rerun |-> <<>>]
    ELSE WithTransitive(g, node_id, depth, DirectlyAffected(g, incoming_edges(g, node_id)))

\* The index the queries run on: three indexed nodes, and edges among them
\* and to and from Entity:X, which no document defines
NodeB == <<"Entity", "B">>

NodeC == <<"CMD", "C">>

IndexedNodes ==
    << GraphNode(NodeEA, "entity", "A.md", "a1", 0),
       GraphNode(NodeB, "entity", "B.md", "b1", 0),
       GraphNode(NodeC, "command", "C.md", "c1", 0) >>

IndexEdge(from_node, to_node, edge_type, violation) ==
    WithViolation(GraphEdge(from_node, to_node, edge_type, "A.md", "wiki_link"), violation)

IndexEdges ==
    { IndexEdge(NodeEA, NodeB, "WIKI_LINK", FALSE),
      IndexEdge(NodeEA, NodeB, "DOMAIN_RELATION", FALSE),
      IndexEdge(NodeB, NodeC, "WIKI_LINK", TRUE),
      IndexEdge(NodeC, NodeEA, "VALIDATES", FALSE),
      IndexEdge(NodeB, NodeEX, "WIKI_LINK", FALSE),
      IndexEdge(NodeEX, NodeC, "WIKI_LINK", FALSE) }

\* The lists of at most MaxIndexEdges different edges of a set
EdgeListsOf(edge_set) ==
    UNION {{edges \in [1..n -> edge_set] :
               \A i, j \in 1..n : edges[i] = edges[j] => i = j} : n \in 0..MaxIndexEdges}

EdgeLists == EdgeListsOf(IndexEdges)

GraphQueries ==
    {GraphQueryInput(root_node, depth, edge_types, include_kinds, respect_layers) :
        root_node \in {NodeEA, NodeC, NodeEX}, depth \in 0..MaxDepth,
        edge_types \in {None, Some(<<"WIKI_LINK">>)},
        include_kinds \in {None, Some(<<"entity">>)},
        respect_layers \in BOOLEAN}

\* The state after graph_store.load(nodes, edges) at start-up
GraphStoreLoaded(nodes, edges) ==
    /\ InitIndex /\ InitMerge /\ InitBus /\ InitDisk
    /\ loader = [NewLoader(TRUE) EXCEPT !.graph = GraphLoad(nodes, edges)]
    /\ llast = [op |-> "graph_load", nodes |-> nodes, edges |-> edges]

\* retrieve_by_graph(query, graph_store) on the store as it was loaded
RetrieveByGraph(query) ==
    /\ llast.op = "graph_load"
    /\ \E result \in retrieve_by_graph(loader.graph, query) :
           llast' = [op |-> "retrieve_by_graph", nodes |-> llast.nodes,
                     edges |-> llast.edges, query |-> query, result |-> result]
    /\ UNCHANGED <<loader, indexVars, mergeVars, busVars, disk>>

\* retrieve_impact(ImpactQueryInput(node_id, depth=depth), graph_store)
RetrieveImpact(node_id, depth) ==
    /\ llast.op = "graph_load"
    /\ llast' = [op |-> "retrieve_impact", nodes |-> llast.nodes, edges |-> llast.edges,
                 node_id |-> node_id, depth |-> depth,
                 result |-> retrieve_impact(loader.graph, node_id, depth)]
    /\ UNCHANGED <<loader, indexVars, mergeVars, busVars, disk>>

InitGraph == \E edges \in EdgeLists : GraphStoreLoaded(IndexedNodes, edges)

NextGraph ==
    \/ \E query \in GraphQueries : RetrieveByGraph(query)
    \/ \E node_id \in {NodeB, NodeC, NodeEX}, depth \in 0..(MaxDepth + 1) :
           RetrieveImpact(node_id, depth)

SpecGraph == InitGraph /\ [][NextGraph]_vars

(***************************************************************************)
(* Python floats.  The scores of retrieve_hybrid are floats (IEEE 754      *)
(* doubles), and its arithmetic rounds: (0.5 * 0.3 + 0.5 * 0.1 + 0.1) / 1.2 *)
(* is 0.25000000000000006 where 0.5 * 0.6 / 1.2 is 0.25.  A float at or     *)
(* above 0 is m * 2^e with a mantissa m of 53 bits, or 0; every operation  *)
(* gives the float nearest to the exact result, a tie going to the even    *)
(* mantissa.  Mantissas and the intermediate results are natural numbers   *)
(* of any size, held as their limbs.                                       *)
(***************************************************************************)
\* Natural numbers of any size: the limbs in base 2^14, the lowest first,
\* with no zero limb at the top; <<>> is 0
Base == 128 * 128

LimbBits == CHOOSE k \in 1..30 : 2 ^ k = Base

Limb(a, i) == IF i \in DOMAIN a THEN a[i] ELSE 0

\* a without the zero limbs at its top
Trim(a) ==
    SubSeq(a, 1, IF \A i \in DOMAIN a : a[i] = 0 THEN 0
                 ELSE CHOOSE i \in DOMAIN a : a[i] # 0 /\ \A j \in DOMAIN a : j > i => a[j] = 0)

\* One limb more of a sum, a difference or a product, with what is carried
Carried(acc, value) == [limbs |-> Append(acc.limbs, value % Base), carry |-> value \div Base]

Borrowed(acc, value) ==
    [limbs |-> Append(acc.limbs, (value + Base) % Base), carry |-> IF value < 0 THEN 1 ELSE 0]

NoLimbs == [limbs |-> <<>>, carry |-> 0]

WithCarry(acc) == Trim(Append(acc.limbs, acc.carry))

AddLimb(acc, a, b, i) == Carried(acc, Limb(a, i) + Limb(b, i) + acc.carry)

BigAdd(a, b) ==
    LET sum[i \in 0..(IF Len(a) < Len(b) THEN Len(b) ELSE Len(a))] ==
            IF i = 0 THEN NoLimbs ELSE AddLimb(sum[i - 1], a, b, i)
    IN  WithCarry(sum[IF Len(a) < Len(b) THEN Len(b) ELSE Len(a)])

SubLimb(acc, a, b, i) == Borrowed(acc, a[i] - Limb(b, i) - acc.carry)

\* a - b, b at most a
BigSub(a, b) ==
    LET diff[i \in 0..Len(a)] == IF i = 0 THEN NoLimbs ELSE SubLimb(diff[i - 1], a, b, i)
    IN  Trim(diff[Len(a)].limbs)

\* The highest limb in which a and b of one length differ
TopDifference(a, b) ==
    CHOOSE i \in DOMAIN a : a[i] # b[i] /\ \A j \in DOMAIN a : j > i => a[j] = b[j]

BigLess(a, b) ==
    IF Len(a) # Len(b) THEN Len(a) < Len(b)
    ELSE IF a = b THEN FALSE
    ELSE a[TopDifference(a, b)] < b[TopDifference(a, b)]

MulLimb(acc, a, k, i) == Carried(acc, a[i] * k + acc.carry)

\* a * k, k below Base
MulSmall(a, k) ==
    LET product[i \in 0..Len(a)] == IF i = 0 THEN NoLimbs ELSE MulLimb(product[i - 1], a, k, i)
    IN  WithCarry(product[Len(a)])

Zeros(n) == [i \in 1..n |-> 0]

ShiftLimbs(a, n) == IF a = <<>> THEN <<>> ELSE Zeros(n) \o a

BigMul(a, b) ==
    LET partial[j \in 0..Len(b)] ==
            IF j = 0 THEN <<>>
            ELSE BigAdd(partial[j - 1], ShiftLimbs(MulSmall(a, b[j]), j - 1))
    IN  partial[Len(b)]

DivLimb(acc, a, k, i) ==
    [limbs |-> <<(acc.carry * Base + a[i]) \div k>> \o acc.limbs,
     carry |-> (acc.carry * Base + a[i]) % k]

\* a \div k, k below Base
DivSmall(a, k) ==
    LET quotient[i \in 1..(Len(a) + 1)] ==
            IF i = Len(a) + 1 THEN NoLimbs ELSE DivLimb(quotient[i + 1], a, k, i)
    IN  Trim(quotient[1].limbs)

\* a * 2^n and a \div 2^n
Shl(a, n) == ShiftLimbs(MulSmall(a, 2 ^ (n % LimbBits)), n \div LimbBits)

Shr(a, n) ==
    IF n \div LimbBits >= Len(a) THEN <<>>
    ELSE DivSmall(SubSeq(a, n \div LimbBits + 1, Len(a)), 2 ^ (n % LimbBits))

\* The number of bits of a
BitLen(a) ==
    IF a = <<>> THEN 0
    ELSE (Len(a) - 1) * LimbBits
             + (CHOOSE k \in 1..LimbBits : 2 ^ (k - 1) <= a[Len(a)] /\ a[Len(a)] < 2 ^ k)

\* Bit i of a, bit 0 the lowest
Bit(a, i) == (Limb(a, i \div LimbBits + 1) \div (2 ^ (i % LimbBits))) % 2

\* n below 2^31
FromNat(n) == Trim(<<n % Base, (n \div Base) % Base, n \div (Base * Base)>>)

\* One limb of a quotient: the largest d with b * d <= cur, for b with the
\* top bit of its top limb set and cur < b * Base.  The two top limbs of
\* cur divided by the top limb of b are d or at most 2 above it.
Largest(estimate, cur, b) ==
    IF ~BigLess(cur, MulSmall(b, estimate)) THEN estimate
    ELSE IF ~BigLess(cur, MulSmall(b, estimate - 1)) THEN estimate - 1
    ELSE estimate - 2

Estimate(top, divisor) == IF top \div divisor < Base THEN top \div divisor ELSE Base - 1

Digit(cur, b) ==
    Largest(Estimate(Limb(cur, Len(b) + 1) * Base + Limb(cur, Len(b)), b[Len(b)]), cur, b)

\* Long division, one limb of a at a time from the top: the quotient and
\* the remainder of a / b after the limbs of a down to limb i
DivDigit(quot, cur, b, d) == [quot |-> <<d>> \o quot, rem |-> BigSub(cur, MulSmall(b, d))]

DivStep(quot, cur, b) == DivDigit(quot, cur, b, Digit(cur, b))

NextLimb(acc, limb, b) ==
    IF acc.rem = <<>> /\ limb = 0 THEN [quot |-> <<0>> \o acc.quot, rem |-> <<>>]
    ELSE DivStep(acc.quot, Trim(<<limb>> \o acc.rem), b)

LongDivision(a, b) ==
    LET division[i \in 1..(Len(a) + 1)] ==
            IF i = Len(a) + 1 THEN [quot |-> <<>>, rem |-> <<>>]
            ELSE NextLimb(division[i + 1], a[i], b)
    IN  division[1]

Unscaled(d, s) == [quot |-> Trim(d.quot), rem |-> Shr(d.rem, s)]

\* a \div b and a % b, b above 0: both are first multiplied by the power of
\* 2 that sets the top bit of the top limb of b
Scaled(a, b, s) == Unscaled(LongDivision(Shl(a, s), Shl(b, s)), s)

BigDivMod(a, b) == Scaled(a, b, LimbBits * Len(b) - BitLen(b))

(* A Python float above or equal 0: m * 2^e with m of 53 bits, or 0 *)
MantissaBits == 53

Double(m, e) == [m |-> m, e |-> e]

FloatZero == Double(<<>>, 0)

\* The float nearest to n * 2^e (n of more than 53 bits; ties to the even
\* mantissa), where `inexact` says that n is the floor of a value that is
\* not a whole number
RoundDown(n, e, s) == Double(Shr(n, s), e + s)

RoundUp(n, e, s) ==
    IF BitLen(BigAdd(Shr(n, s), <<1>>)) > MantissaBits
    THEN Double(Shr(BigAdd(Shr(n, s), <<1>>), 1), e + s + 1)
    ELSE Double(BigAdd(Shr(n, s), <<1>>), e + s)

RoundAt(n, e, s, rem, half, inexact) ==
    IF BigLess(half, rem) \/ (rem = half /\ (inexact \/ Bit(n, s) = 1))
    THEN RoundUp(n, e, s)
    ELSE RoundDown(n, e, s)

RoundToFloat(n, e, inexact) ==
    IF n = <<>> THEN FloatZero
    ELSE IF BitLen(n) <= MantissaBits
    THEN Double(Shl(n, MantissaBits - BitLen(n)), e - (MantissaBits - BitLen(n)))
    ELSE RoundAt(n, e, BitLen(n) - MantissaBits,
                 BigSub(n, Shl(Shr(n, BitLen(n) - MantissaBits), BitLen(n) - MantissaBits)),
                 Shl(<<1>>, BitLen(n) - MantissaBits - 1), inexact)

\* float(n) of an int
FloatOfInt(n) == RoundToFloat(FromNat(n), 0, FALSE)

FloatMul(x, y) == RoundToFloat(BigMul(x.m, y.m), x.e + y.e, FALSE)

FloatAdd(x, y) ==
    IF x.m = <<>> THEN y
    ELSE IF y.m = <<>> THEN x
    ELSE IF x.e >= y.e THEN RoundToFloat(BigAdd(Shl(x.m, x.e - y.e), y.m), y.e, FALSE)
    ELSE RoundToFloat(BigAdd(Shl(y.m, y.e - x.e), x.m), x.e, FALSE)

QuotientToFloat(d, e) == RoundToFloat(d.quot, e, d.rem # <<>>)

\* x / y, y above 0
FloatDiv(x, y) ==
    IF y.m = <<>> THEN [raised |-> "ZeroDivisionError"]
    ELSE IF x.m = <<>> THEN FloatZero
    ELSE QuotientToFloat(BigDivMod(Shl(x.m, MantissaBits + 3), y.m), x.e - y.e - (MantissaBits + 3))

FloatLess(x, y) ==
    IF y.m = <<>> THEN FALSE
    ELSE IF x.m = <<>> THEN TRUE
    ELSE IF x.e # y.e THEN x.e < y.e
    ELSE BigLess(x.m, y.m)

\* The float a decimal literal n/d denotes (0.6 is 6/10): the float nearest
\* to the quotient of the two whole numbers
Decimal(n, d) == FloatDiv(FloatOfInt(n), FloatOfInt(d))

\* max(a, b) and min(a, b): the first argument unless the second is above,
\* or under, it
FloatMax(a, b) == IF FloatLess(a, b) THEN b ELSE a

FloatMin(a, b) == IF FloatLess(b, a) THEN b ELSE a

(***************************************************************************)
(* retrieve_hybrid (QRY-003).  Texts are sequences of characters; scores   *)
(* are Python floats.                                                      *)
(***************************************************************************)
\* str.strip
RECURSIVE strip(_)
strip(text) ==
    IF text = <<>> THEN text
    ELSE IF Head(text) = " " THEN strip(Tail(text))
    ELSE IF text[Len(text)] = " " THEN strip(SubSeq(text, 1, Len(text) - 1))
    ELSE text

\* sub in text
Contains(text, sub) ==
    \E i \in 1..(Len(text) - Len(sub) + 1) : SubSeq(text, i, i + Len(sub) - 1) = sub

\* The indexed_fields values (the title, when there is one), the node id
\* and the aliases (none)
_node_matches_text(node, query_lower) ==
    \E val \in (IF node.title = <<>> THEN {} ELSE {node.title}) \cup {node.id_text} :
        Contains(lower(val), query_lower)

\* The indexed nodes in the order of self._nodes
NodeList(g) ==
    LET ids == SeqFilter(g.order, {n.id : n \in g.nodes})
    IN  [i \in DOMAIN ids |-> get_node(g, ids[i])]

text_search(g, query) ==
    SeqFilter(NodeList(g), {n \in g.nodes : _node_matches_text(n, lower(query))})

\* HNSWLibVectorStore.search, given the stored embeddings nearest first
\* with their similarity to the query vector: the nearest k, those with
\* score < min_score left out
search(similarities, limit, min_score) ==
    SeqFilter(SubSeq(similarities, 1, IF limit < Len(similarities) THEN limit
                                      ELSE Len(similarities)),
              {m \in Range(similarities) : ~FloatLess(m.score, min_score)})

\* KIND_PREFIX.values(), in the order of the dict
KindPrefixes == <<"Entity", "CMD">>

\* The node of an embedding id; <<>> for None
_emb_id_to_node_id(emb_id, g) ==
    LET found == SeqFilter(KindPrefixes, {prefix \in Range(KindPrefixes) :
                                             has_node(g, <<prefix, emb_id[1]>>)})
    IN  IF found = <<>> THEN <<>> ELSE <<Head(found), emb_id[1]>>

_kind_layer_filter(node, include_kinds, include_layers) ==
    /\ ~(include_kinds.given /\ include_kinds.items # <<>>
            /\ node.kind \notin Range(include_kinds.items))
    /\ ~(include_layers.given /\ include_layers.items # <<>>
            /\ node.layer \notin Range(include_layers.items))

\* scores: dict[node_id, dict[source, score]] in insertion order; a source
\* that is not a key is 0
Sources(node_id) ==
    [node_id |-> node_id, semantic |-> FloatZero, lexical |-> FloatZero, graph |-> FloatZero]

Max(a, b) == IF a < b THEN b ELSE a

\* scores.setdefault(node_id, {})[source] = value (the semantic value being
\* the maximum of the old one and the new score)
SetSource(scores, node_id, source, value) ==
    IF \E i \in DOMAIN scores : scores[i].node_id = node_id
    THEN [i \in DOMAIN scores |->
             IF scores[i].node_id = node_id THEN [scores[i] EXCEPT ![source] = value]
             ELSE scores[i]]
    ELSE Append(scores, [Sources(node_id) EXCEPT ![source] = value])

SemanticOf(scores, node_id) ==
    IF \E i \in DOMAIN scores : scores[i].node_id = node_id
    THEN (CHOOSE e \in Range(scores) : e.node_id = node_id).semantic
    ELSE FloatZero

\* Phase 1, the loop over the matches
RECURSIVE SemanticPhase(_, _, _)
SemanticPhase(scores, matches, g) ==
    IF matches = <<>> THEN scores
    ELSE SemanticPhase(
             IF _emb_id_to_node_id(Head(matches).id, g) = <<>> THEN scores
             ELSE SetSource(scores, _emb_id_to_node_id(Head(matches).id, g), "semantic",
                            FloatMax(SemanticOf(scores, _emb_id_to_node_id(Head(matches).id, g)),
                                     Head(matches).score)),
             Tail(matches), g)

\* scores[...]["lexical"] = 0.5 and scores[...]["graph"] = 0.5
LexicalScore == Decimal(5, 10)

GraphScore == Decimal(5, 10)

\* Phase 2, the loop over the lexical matches
RECURSIVE LexicalPhase(_, _, _)
LexicalPhase(scores, lexical_nodes, query) ==
    IF lexical_nodes = <<>> THEN scores
    ELSE LexicalPhase(
             IF _kind_layer_filter(Head(lexical_nodes), query.include_kinds, query.include_layers)
             THEN SetSource(scores, Head(lexical_nodes).id, "lexical", LexicalScore)
             ELSE scores,
             Tail(lexical_nodes), query)

\* for n in nodes: the nodes one traversal found, marked as graph matches
RECURSIVE MarkGraph(_, _, _, _)
MarkGraph(scores, nodes, seed_id, query) ==
    IF nodes = <<>> THEN scores
    ELSE MarkGraph(
             IF Head(nodes).id # seed_id
                /\ _kind_layer_filter(Head(nodes), query.include_kinds, query.include_layers)
             THEN SetSource(scores, Head(nodes).id, "graph", GraphScore)
             ELSE scores,
             Tail(nodes), seed_id, query)

\* Phase 3, the loop over the seeds; acc holds scores and all_graph_edges.
\* order is the order in which the sets of nodes are iterated.
RECURSIVE GraphPhase(_, _, _, _, _)
GraphPhase(acc, seed_ids, g, query, order) ==
    IF seed_ids = <<>> THEN acc
    ELSE IF ~has_node(g, Head(seed_ids)) THEN GraphPhase(acc, Tail(seed_ids), g, query, order)
    ELSE GraphPhase(
             [scores |->
                  MarkGraph(acc.scores,
                      SeqFilter(order,
                          traverse(g, Head(seed_ids), query.depth, None,
                                   query.respect_layers).nodes),
                      Head(seed_ids), query),
              edges |-> acc.edges \o traverse(g, Head(seed_ids), query.depth, None,
                                              query.respect_layers).edges],
             Tail(seed_ids), g, query, order)

_WEIGHT_SEMANTIC == Decimal(6, 10)

_WEIGHT_GRAPH == Decimal(3, 10)

_WEIGHT_LEXICAL == Decimal(1, 10)

\* source_count: the sources with a value above 0
SourceCount(node_sources) ==
    Cardinality({k \in {"semantic", "graph", "lexical"} : FloatLess(FloatZero, node_sources[k])})

\* The 0.1 of the bonus
BonusPerSource == Decimal(1, 10)

\* bonus = 0.1 * (source_count - 1) if source_count > 1 else 0
Bonus(source_count) ==
    IF source_count > 1 THEN FloatMul(BonusPerSource, FloatOfInt(source_count - 1))
    ELSE FloatZero

\* weighted: the sum of the three products and the bonus, added from the left
Weighted(node_sources) ==
    FloatAdd(FloatAdd(FloatAdd(FloatMul(node_sources.semantic, _WEIGHT_SEMANTIC),
                               FloatMul(node_sources.graph, _WEIGHT_GRAPH)),
                      FloatMul(node_sources.lexical, _WEIGHT_LEXICAL)),
             Bonus(SourceCount(node_sources)))

\* _WEIGHT_SEMANTIC + _WEIGHT_GRAPH + _WEIGHT_LEXICAL + 0.2, added from the
\* left
Normaliser ==
    FloatAdd(FloatAdd(FloatAdd(_WEIGHT_SEMANTIC, _WEIGHT_GRAPH), _WEIGHT_LEXICAL),
             Decimal(2, 10))

\* min(weighted / (_WEIGHT_SEMANTIC + _WEIGHT_GRAPH + _WEIGHT_LEXICAL + 0.2), 1.0)
_compute_fusion_score(node_sources) ==
    FloatMin(FloatDiv(Weighted(node_sources), Normaliser), FloatOfInt(1))

_determine_match_source(node_sources) ==
    IF FloatLess(FloatZero, node_sources.semantic) /\ FloatLess(FloatZero, node_sources.graph)
    THEN "fusion"
    ELSE IF FloatLess(FloatZero, node_sources.semantic) THEN "semantic"
    ELSE IF FloatLess(FloatZero, node_sources.graph) THEN "graph"
    ELSE "lexical"

\* The text of a kind
KindText ==
    [k \in KDDKind |->
        IF k = "entity" THEN <<"e", "n", "t", "i", "t", "y">>
        ELSE <<"c", "o", "m", "m", "a", "n", "d">>]

\* retrieve_hybrid's _build_snippet: "[kind] title", or "[kind] id"
SnippetText(node) ==
    <<"[">> \o KindText[node.kind] \o <<"]", " ">>
        \o (IF node.title # <<>> THEN node.title ELSE node.id_text)

_CHARS_PER_TOKEN == 4

count_tokens(text) == Max(1, Len(text) \div _CHARS_PER_TOKEN)

HybridQueryInput(query_text, expand_graph, depth, include_kinds, include_layers, respect_layers, min_score, limit, max_tokens) ==
    [query_text |-> query_text, expand_graph |-> expand_graph, depth |-> depth,
     include_kinds |-> include_kinds, include_layers |-> include_layers,
     respect_layers |-> respect_layers, min_score |-> min_score, limit |-> limit,
     max_tokens |-> max_tokens]

\* The nodes of the index queried: two entities with a title and a command
\* without one
HybridNode(id, kind, layer, title, id_text) ==
    [id |-> id, kind |-> kind, layer |-> layer, title |-> title, id_text |-> id_text]

HybridNodes ==
    << HybridNode(NodeEA, "entity", "01-domain", <<"O", "r", "d", "e", "r">>,
                  <<"E", "n", "t", "i", "t", "y", ":", "A">>),
       HybridNode(NodeB, "entity", "01-domain", <<"C", "a", "r", "t">>,
                  <<"E", "n", "t", "i", "t", "y", ":", "B">>),
       HybridNode(NodeC, "command", "02-behavior", <<>>, <<"C", "M", "D", ":", "C">>) >>

HybridEdges ==
    { IndexEdge(NodeEA, NodeB, "WIKI_LINK", FALSE),
      IndexEdge(NodeB, NodeC, "WIKI_LINK", TRUE),
      IndexEdge(NodeB, NodeEX, "WIKI_LINK", FALSE) }

QueryTexts == {<<"c", "a", "r">>, <<"E", "N", "T">>, <<" ", "a", "b", " ">>}

HybridQueries ==
    {HybridQueryInput(query_text, expand_graph, depth, include_kinds, None, TRUE, min_score,
                      limit, max_tokens) :
        query_text \in QueryTexts, expand_graph \in BOOLEAN, depth \in {1, MaxDepth},
        include_kinds \in {None, Some(<<"entity">>)},
        min_score \in {Decimal(5, 10), Decimal(3, 10), Decimal(1, 10)},
        limit \in 1..2, max_tokens \in {2, 8000}}

Similarity(doc_id, chunk_index, score) == [id |-> <<doc_id, chunk_index>>, score |-> score]

\* No vector store, or one with the similarities it finds for the query.
\* With the similarity 0.5 the command scores 0.5 * 0.6 / 1.2 = 0.25, under
\* the 0.25000000000000006 of a node the lexical and graph phases matched.
VectorStores ==
    { None, Some(<<>>), Some(<<Similarity("C", 0, Decimal(5, 10))>>),
      Some(<<Similarity("C", 0, Decimal(9, 10)), Similarity("A", 0, Decimal(45, 100))>>),
      Some(<<Similarity("A", 1, Decimal(9, 10)), Similarity("A", 0, Decimal(45, 100)),
             Similarity("Z", 0, Decimal(45, 100))>>) }

\* The sources dicts the phases build for a node from the vector stores of
\* the model
NodeSources ==
    {[semantic |-> semantic, graph |-> graph, lexical |-> lexical] :
        semantic \in {FloatZero} \cup UNION {{m.score : m \in Range(vector.items)} :
                                               vector \in VectorStores},
        graph \in {FloatZero, GraphScore}, lexical \in {FloatZero, LexicalScore}}

\* _compute_fusion_score of each of them, computed once
FusedScores ==
    {[sources |-> node_sources, score |-> _compute_fusion_score(node_sources)] :
        node_sources \in NodeSources}

SourcesOnly(e) == [semantic |-> e.semantic, graph |-> e.graph, lexical |-> e.lexical]

\* score = _compute_fusion_score(sources)
FusionScore(node_sources) ==
    IF SourcesOnly(node_sources) \in NodeSources
    THEN (CHOOSE f \in FusedScores : f.sources = SourcesOnly(node_sources)).score
    ELSE _compute_fusion_score(node_sources)

\* Phase 4, one entry of scores whose node is indexed and passes the
\* filters: dropped when score < query.min_score
FusedNode(node_sources, score, g, query) ==
    IF FloatLess(score, query.min_score) THEN <<>>
    ELSE <<ScoredNode(node_sources.node_id, score,
                      SnippetText(get_node(g, node_sources.node_id)),
                      _determine_match_source(node_sources))>>

\* Phase 4, the loop over scores
RECURSIVE FusionPhase(_, _, _)
FusionPhase(scores, g, query) ==
    IF scores = <<>> THEN <<>>
    ELSE (IF /\ has_node(g, Head(scores).node_id)
             /\ _kind_layer_filter(get_node(g, Head(scores).node_id), query.include_kinds,
                                   query.include_layers)
          THEN FusedNode(Head(scores), FusionScore(Head(scores)), g, query)
          ELSE <<>>)
         \o FusionPhase(Tail(scores), g, query)

\* fused.sort(key=lambda s: s.score, reverse=True): stable, the highest
\* score first
RECURSIVE InsertByFusedScore(_, _)
InsertByFusedScore(sorted, item) ==
    IF sorted = <<>> THEN <<item>>
    ELSE IF FloatLess(Head(sorted).score, item.score) THEN <<item>> \o sorted
    ELSE <<Head(sorted)>> \o InsertByFusedScore(Tail(sorted), item)

RECURSIVE SortByFusedScore(_, _)
SortByFusedScore(items, sorted) ==
    IF items = <<>> THEN sorted
    ELSE SortByFusedScore(Tail(items), InsertByFusedScore(sorted, Head(items)))

\* Token truncation: the loop over fused
RECURSIVE Truncate(_, _, _, _)
Truncate(fused, final_results, total_tokens, query) ==
    IF fused = <<>> THEN [results |-> final_results, total_tokens |-> total_tokens]
    ELSE IF total_tokens + count_tokens(Head(fused).snippet) > query.max_tokens
            /\ final_results # <<>>
    THEN [results |-> final_results, total_tokens |-> total_tokens]
    ELSE IF Len(final_results) + 1 >= query.limit
    THEN [results |-> Append(final_results, Head(fused)),
          total_tokens |-> total_tokens + count_tokens(Head(fused).snippet)]
    ELSE Truncate(Tail(fused), Append(final_results, Head(fused)),
                  total_tokens + count_tokens(Head(fused).snippet), query)

HybridQueryResult(truncated, acc, warnings) ==
    [raised |-> "", results |-> truncated.results,
     graph_expansion |-> _deduplicate_edges(acc.edges, {}),
     total_results |-> Len(truncated.results), total_tokens |-> truncated.total_tokens,
     warnings |-> warnings, scores |-> acc.scores]

\* Phases 3 and 4 and the truncation, from the scores of phases 1 and 2
FromSeeds(acc, g, query, warnings) ==
    HybridQueryResult(
        Truncate(SortByFusedScore(FusionPhase(acc.scores, g, query), <<>>), <<>>, 0, query),
        acc, warnings)

Expanded(scores, g, query, order, warnings) ==
    FromSeeds(IF query.expand_graph
              THEN GraphPhase([scores |-> scores, edges |-> <<>>],
                              [i \in DOMAIN scores |-> scores[i].node_id], g, query, order)
              ELSE [scores |-> scores, edges |-> <<>>],
              g, query, warnings)

\* The 0.8 of min_score=query.min_score * 0.8
FusionThreshold == Decimal(8, 10)

\* retrieve_hybrid; has_vector says whether a vector store and an embedding
\* model were given, similarities is what the vector store holds for the
\* encoded query
retrieve_hybrid(query, g, has_vector, similarities, order) ==
    IF Len(strip(query.query_text)) < 3
    THEN [raised |-> "ValueError", results |-> <<>>, graph_expansion |-> <<>>,
          total_results |-> 0, total_tokens |-> 0, warnings |-> <<>>, scores |-> <<>>]
    ELSE Expanded(
             LexicalPhase(
                 IF has_vector
                 THEN SemanticPhase(<<>>,
                          search(similarities, query.limit * 3,
                                 FloatMul(query.min_score, FusionThreshold)),
                          g)
                 ELSE <<>>,
                 text_search(g, query.query_text), query),
             g, query, order,
             IF has_vector THEN <<>> ELSE <<"NO_EMBEDDINGS">>)

\* retrieve_hybrid(query, graph_store, vector_store, embedding_model) on a
\* graph store loaded at start-up
RetrieveHybrid(query, vector, order) ==
    /\ llast.op = "graph_load"
    /\ llast' = [op |-> "retrieve_hybrid", nodes |-> llast.nodes, edges |-> llast.edges,
                 query |-> query, has_vector |-> vector.given,
                 result |-> retrieve_hybrid(query, loader.graph, vector.given, vector.items,
                                            order)]
    /\ UNCHANGED <<loader, indexVars, mergeVars, busVars, disk>>

InitHybrid == \E edges \in EdgeListsOf(HybridEdges) : GraphStoreLoaded(HybridNodes, edges)

NextHybrid ==
    \E query \in HybridQueries, vector \in VectorStores, order \in Orderings(Range(HybridNodes)) :
        RetrieveHybrid(query, vector, order)

SpecHybrid == InitHybrid /\ [][NextHybrid]_vars

(***************************************************************************)
(* A file of the index directory at the level of its bytes: write_manifest *)
(* is path.write_text(manifest.model_dump_json(indent=2)), which opens the *)
(* file for writing (truncating it), writes the text and closes it.  The   *)
(* text is written in pieces, here one per field of the JSON object.       *)
(***************************************************************************)
\* manifest.model_dump_json(indent=2): the JSON text, its fields in the
\* order in which IndexManifest declares them
model_dump_json(manifest) ==
    << "{",
       <<"version", manifest.version>>,
       <<"kdd_version", manifest.kdd_version>>,
       <<"embedding_model", manifest.embedding_model>>,
       <<"embedding_dimensions", manifest.embedding_dimensions>>,
       <<"indexed_at", manifest.indexed_at>>,
       <<"indexed_by", manifest.indexed_by>>,
       <<"structure", manifest.structure>>,
       <<"index_level", manifest.index_level>>,
       <<"stats", manifest.stats>>,
       <<"domains", manifest.domains>>,
       <<"git_commit", manifest.git_commit>>,
       "}" >>

\* write_text, first step: open(path, "w") creates or truncates the file
OpenForWriting(manifest) ==
    /\ disk.pc # "writing"
    /\ disk' = [text |-> <<>>, exists |-> TRUE, pc |-> "writing",
                pending |-> model_dump_json(manifest),
                before |-> disk.text, data |-> model_dump_json(manifest)]
    /\ UNCHANGED <<indexVars, mergeVars, busVars, queryVars>>

\* write_text, next step: one more piece of the text reaches the file
WritePiece ==
    /\ disk.pc = "writing"
    /\ disk.pending # <<>>
    /\ disk' = [disk EXCEPT !.text = Append(@, Head(disk.pending)),
                            !.pending = Tail(@)]
    /\ UNCHANGED <<indexVars, mergeVars, busVars, queryVars>>

\* write_text, last step: the file is closed and the call returns
CloseFile ==
    /\ disk.pc = "writing"
    /\ disk.pending = <<>>
    /\ disk' = [disk EXCEPT !.pc = "idle"]
    /\ UNCHANGED <<indexVars, mergeVars, busVars, queryVars>>

\* The process is interrupted (killed, power loss) during write_text
Interrupt ==
    /\ disk.pc = "writing"
    /\ disk' = [disk EXCEPT !.pc = "interrupted", !.pending = <<>>]
    /\ UNCHANGED <<indexVars, mergeVars, busVars, queryVars>>

NextWrite ==
    \/ \E manifest \in LoaderManifests : OpenForWriting(manifest)
    \/ WritePiece
    \/ CloseFile
    \/ Interrupt

SpecWrite == Init /\ [][NextWrite]_vars

(***************************************************************************)
(* The loader serving queries while the indexing commands write the index. *)
(***************************************************************************)
\* The spec files committed: entities under the specs root
ServedContents ==
    { FileContent("utf-8", "", "entity", <<>>, <<>>, <<>>, <<"summary", "details">>) }

NextServe ==
    \/ \E path \in InsideSpecsRoot, content \in ServedContents : CommitWrite(path, content)
    \/ \E path \in InsideSpecsRoot : IndexDocument(path, "L1", FALSE)
    \/ IndexIncremental("L1", FALSE)
    \/ \E node_dirs \in DirOrders, emb_dirs \in DirOrders : Load(FALSE, node_dirs, emb_dirs)
    \/ \E node_id \in EnrichedNodes, dirs \in DirOrders, untracked \in UntrackedFiles,
          answer \in AgentAnswers(ImplicitRelations) :
          EnrichWithAgent(node_id, dirs, untracked, answer)

SpecServe == Init /\ [][NextServe]_vars

(***************************************************************************)
(* Vocabulary of the properties of indexing.                               *)
(***************************************************************************)
\* The last command was an index_incremental run that returned its result
IncrementalReturned == last.op = "index_incremental" /\ last.raised = ""

\* index_document makes a node of this file
Indexable(path, content) ==
    /\ content.enc = "utf-8"
    /\ path \in InsideSpecsRoot
    /\ route_document(content.kind) # ""

DocIdFor(path, content) == IF content.id # "" THEN content.id ELSE stem[path]

\* The id of the node index_document makes of this file
NodeIdFor(path, content) == make_node_id(route_document(content.kind), DocIdFor(path, content))

StoreNodeIds(st) == {n.id : n \in st.nodes}

\* The files of the HEAD tree that index_document makes node id `nid` of
FilesOfNode(nid) ==
    {p \in DOMAIN commits[HEAD] :
        Indexable(p, commits[HEAD][p]) /\ NodeIdFor(p, commits[HEAD][p]) = nid}

NoArtifactOf(st, nid) ==
    /\ nid \notin StoreNodeIds(st)
    /\ \A e \in Range(st.edges) : e.from_node # nid /\ e.to_node # nid
    /\ \A f \in st.embeddings : f.doc # DocIdOf(nid)

\* C1: when an indexed document's file has been deleted in a commit, the
\* next index_incremental run reports deleted >= 1 and leaves no node of the
\* document, no edge with that node as an endpoint and no embedding of it.
C1_IncrementalDeletion ==
    IncrementalReturned =>
        \A p \in Range(last.diff.deleted) \cap InsideSpecsRoot :
            LET was == commits[last.since][p]
            IN  (Indexable(p, was) /\ FilesOfNode(NodeIdFor(p, was)) = {}) =>
                    /\ last.result.deleted >= 1
                    /\ NoArtifactOf(store, NodeIdFor(p, was))

\* C2: the edge list of the store holds at most one edge for every
\* (from_node, to_node, edge_type).
C2_OneEdgePerTriple ==
    \A i, j \in DOMAIN store.edges :
        EdgeKey(store.edges[i]) = EdgeKey(store.edges[j]) => i = j

\* C3: a failure on one file never aborts index_incremental: the run
\* returns its result and writes the manifest of the HEAD it indexed.
C3_RunNeverAborts ==
    last.op = "index_incremental" =>
        /\ last.raised = ""
        /\ store.manifest.present
        /\ store.manifest.git_commit = get_current_commit

\* C4: after a completed index_incremental run every node of the store is
\* the node of a spec file that exists at HEAD with the node's source_hash.
\* Stated for the runs that work from the manifest of an earlier run.
C4_NodesMatchHead ==
    (IncrementalReturned /\ last.since # 0) =>
        \A n \in store.nodes :
            \E p \in (DOMAIN commits[HEAD]) \cap InsideSpecsRoot :
                /\ relative_to[p] = n.source_file
                /\ compute_content_hash(commits[HEAD][p]) = n.source_hash

\* The edges and the embeddings index_document produces from a file
EmbeddingsFor(path, content) ==
    IF Indexable(path, content)
    THEN {Embedding(DocIdFor(path, content), route_document(content.kind), i - 1,
                    content.chunks[i]) : i \in DOMAIN content.chunks}
    ELSE {}

EdgesFor(path, content) ==
    IF Indexable(path, content)
    THEN Range(extract_edges(route_document(content.kind), DocIdFor(path, content),
                             relative_to[path], content.links, content.relations,
                             content.events))
    ELSE {}

\* C5: after index_incremental has processed a modified file, no edge and no
\* embedding made from the file's previous content, and not made from its
\* new content, is left in the store.
C5_ModifiedLeavesNoStaleArtifact ==
    IncrementalReturned =>
        \A p \in Range(last.diff.modified) \cap InsideSpecsRoot :
            LET was == commits[last.since][p]
                new == commits[HEAD][p]
            IN  /\ \A e \in EdgesFor(p, was) \ EdgesFor(p, new) : e \notin Range(store.edges)
                /\ \A x \in EmbeddingsFor(p, was) \ EmbeddingsFor(p, new) :
                       \A f \in store.embeddings : x \notin Range(f.items)

(***************************************************************************)
(* Vocabulary of the properties of merging.                                *)
(***************************************************************************)
MergeSucceeded == mlast.op = "merge_index" /\ mlast.result.success

NodeIn(st, node_id) == CHOOSE n \in st.nodes : n.id = node_id

\* The positions on the source list of the indices that hold the node
HoldersOf(srcs, node_id) == {i \in DOMAIN srcs : node_id \in StoreNodeIds(srcs[i])}

SourceNodeIds(srcs) == UNION {StoreNodeIds(srcs[i]) : i \in DOMAIN srcs}

\* Two or more candidates for the node id whose source_hash values differ
Conflicting(srcs, node_id) ==
    Cardinality({NodeIn(srcs[i], node_id).source_hash : i \in HoldersOf(srcs, node_id)}) > 1

\* The holders whose copy of the node has the maximum indexed_at
LatestHolders(srcs, node_id) ==
    {i \in HoldersOf(srcs, node_id) :
        \A j \in HoldersOf(srcs, node_id) :
            NodeIn(srcs[j], node_id).indexed_at <= NodeIn(srcs[i], node_id).indexed_at}

Least(S) == CHOOSE i \in S : \A j \in S : i <= j

\* The source list in another order
Reordered(srcs, f) == [i \in DOMAIN srcs |-> srcs[f[i]]]

\* C6: when merge_index with last_write_wins finds candidates of one node id
\* whose source_hash values differ, the node it writes is the candidate with
\* the maximum indexed_at, and the same candidate wins for every order of
\* the source list.
C6_TimestampNotOrderDecides ==
    (MergeSucceeded /\ mlast.conflict_strategy = "last_write_wins") =>
        \A node_id \in SourceNodeIds(mlast.source_paths) :
            Conflicting(mlast.source_paths, node_id) =>
                /\ \E i \in LatestHolders(mlast.source_paths, node_id) :
                       NodeIn(out, node_id) = NodeIn(mlast.source_paths[i], node_id)
                /\ \A f \in Permutations(DOMAIN mlast.source_paths) :
                       \A node_dirs \in NodeOrders(Reordered(mlast.source_paths, f)),
                          emb_dirs \in EmbeddingOrders(Reordered(mlast.source_paths, f)) :
                           NodeIn(merge_index(Reordered(mlast.source_paths, f), EmptyStore,
                                              "last_write_wins", node_dirs, emb_dirs,
                                              now).out, node_id)
                               = NodeIn(out, node_id)

\* C6 (amended): the node written is the copy held by the earliest-listed
\* source among those whose copy has the maximum indexed_at; the order of
\* the sources decides only between copies tied for the maximum.
C6_LatestThenEarliestListed ==
    (MergeSucceeded /\ mlast.conflict_strategy = "last_write_wins") =>
        \A node_id \in SourceNodeIds(mlast.source_paths) :
            Conflicting(mlast.source_paths, node_id) =>
                NodeIn(out, node_id) =
                    NodeIn(mlast.source_paths[Least(LatestHolders(mlast.source_paths, node_id))],
                           node_id)

\* A last_write_wins merge has resolved a conflict between copies tied for
\* the maximum indexed_at, the earlier-listed one not being the only holder.
C6_Witness ==
    /\ MergeSucceeded
    /\ mlast.conflict_strategy = "last_write_wins"
    /\ mlast.result.conflicts_resolved >= 1
    /\ \E node_id \in SourceNodeIds(mlast.source_paths) :
           /\ Conflicting(mlast.source_paths, node_id)
           /\ Cardinality({NodeIn(mlast.source_paths[i], node_id).source_hash :
                              i \in LatestHolders(mlast.source_paths, node_id)}) > 1
           /\ NodeIn(out, node_id) \in mlast.source_paths[1].nodes

\* C7: delete-wins: a node that is absent from at least one of the source
\* indices is not in the merged index.
C7_DeleteWins ==
    MergeSucceeded =>
        \A node_id \in SourceNodeIds(mlast.source_paths) :
            LET present_in == [i \in DOMAIN mlast.source_paths |->
                                  i \in HoldersOf(mlast.source_paths, node_id)]
            IN  resolve_deletion(present_in, FALSE)[1] => node_id \notin StoreNodeIds(out)

\* C8: whenever merge_index fails, nothing has been written to the output
\* path: its nodes, edges, embeddings and manifest are what they were.
C8_FailedMergeWritesNothing ==
    [][(merges' = merges + 1 /\ ~mlast'.result.success) => out' = out]_vars

\* A merge was rejected for a conflict while the output path held the index
\* written by an earlier merge, and other nodes had no conflict.
C8_Witness ==
    /\ mlast.op = "merge_index"
    /\ ~mlast.result.success
    /\ mlast.result.error = "CONFLICT_REJECTED"
    /\ merges = 2
    /\ out.manifest.present
    /\ out.nodes # {}

\* C9: after a successful merge_index every edge of the index at the output
\* path has both endpoints among that index's nodes, and no two edges there
\* have the same (from_node, to_node, edge_type).
C9_MergedEdgesClosedAndUnique ==
    MergeSucceeded =>
        /\ \A e \in Range(out.edges) :
               e.from_node \in StoreNodeIds(out) /\ e.to_node \in StoreNodeIds(out)
        /\ \A i, j \in DOMAIN out.edges :
               EdgeKey(out.edges[i]) = EdgeKey(out.edges[j]) => i = j

\* The embeddings an index stores for one document of one kind
EmbeddingsOf(st, kind, doc) ==
    UNION {Range(f.items) : f \in {g \in st.embeddings : g.kind = kind /\ g.doc = doc}}

\* C10: for every node of the merged index the embeddings written for its
\* document are exactly those stored for it in the source whose copy of the
\* node won; none comes from a losing source.
C10_EmbeddingsFromWinner ==
    MergeSucceeded =>
        \A i \in DOMAIN mlast.merged_nodes :
            LET n == mlast.merged_nodes[i]
                written == {x \in Range(mlast.merged_embeddings) :
                               x.document_kind = n.kind /\ x.document_id = DocIdOf(n.id)}
            IN  \E w \in DOMAIN mlast.source_paths :
                    /\ n \in mlast.source_paths[w].nodes
                    /\ written = EmbeddingsOf(mlast.source_paths[w], n.kind, DocIdOf(n.id))

\* The (node id, source_hash) pairs of a set or list of nodes
IdHashes(nodes) == {<<n.id, n.source_hash>> : n \in nodes}

\* Two source indices in which every node id appears in both with the same
\* source_hash
SameContent(srcs) ==
    /\ Len(srcs) = 2
    /\ IdHashes(srcs[1].nodes) = IdHashes(srcs[2].nodes)

\* Both manifests exist and pass _validate_compatibility
CompatibleManifests(srcs) ==
    /\ \A i \in DOMAIN srcs : read_manifest(srcs[i]).present
    /\ _validate_compatibility([i \in DOMAIN srcs |-> read_manifest(srcs[i])]) = ""

\* What merge identity promises of the last merge
IdentityOutcome ==
    /\ mlast.result.success
    /\ mlast.result.conflicts_resolved = 0
    /\ IdHashes(Range(mlast.merged_nodes)) = IdHashes(mlast.source_paths[1].nodes)
    /\ mlast.result.total_nodes = Cardinality(mlast.source_paths[1].nodes)

\* C11: merge identity: merging two indices in which every node id appears
\* in both with the same source_hash succeeds, the merged node set is the
\* node set of each input and conflicts_resolved = 0.
C11_MergeIdentity ==
    (mlast.op = "merge_index" /\ SameContent(mlast.source_paths)) => IdentityOutcome

\* C11 (amended): the same, for two indices whose manifests exist and are
\* compatible (same major version, at most one embedding model, same
\* structure); otherwise the merge fails with the validation error.
C11_MergeIdentityOfCompatible ==
    (mlast.op = "merge_index" /\ SameContent(mlast.source_paths)) =>
        IF CompatibleManifests(mlast.source_paths) THEN IdentityOutcome
        ELSE /\ ~mlast.result.success
             /\ mlast.result.error \in {"MANIFEST_NOT_FOUND", "INCOMPATIBLE_VERSION",
                                        "INCOMPATIBLE_EMBEDDING_MODEL",
                                        "INCOMPATIBLE_STRUCTURE"}

\* Two different index directories with the same two nodes, indexed at
\* different times, have been merged.
C11_Witness ==
    /\ mlast.op = "merge_index"
    /\ SameContent(mlast.source_paths)
    /\ CompatibleManifests(mlast.source_paths)
    /\ mlast.source_paths[1] # mlast.source_paths[2]
    /\ mlast.source_paths[1].nodes # mlast.source_paths[2].nodes
    /\ mlast.result.total_nodes = 2
    /\ StoreNodeIds(out) = StoreNodeIds(mlast.source_paths[1])

\* The handlers of the published event's type that were called, in order
CalledHandlers == [i \in DOMAIN blast.calls |-> blast.calls[i].handler]

\* C13: if a handler subscribed for the event's type raises, every handler
\* subscribed after it for that type is still invoked with the event.
C13_FailingHandlerDoesNotAbort ==
    blast.op = "publish" =>
        \A i, j \in DOMAIN bus[blast.event.type] :
            (i < j /\ HandlerRaises(bus[blast.event.type][i])) =>
                \E k \in DOMAIN blast.calls :
                    /\ blast.calls[k].handler = bus[blast.event.type][j]
                    /\ blast.calls[k].event = blast.event

\* C14: publish invokes exactly the handlers subscribed for the event's
\* type, once per subscription and in subscription order, no handler of
\* another type, and with no handler subscribed it does and raises nothing.
C14_ExactlySubscribedInOrder ==
    blast.op = "publish" =>
        /\ CalledHandlers = bus[blast.event.type]
        /\ \A k \in DOMAIN blast.calls : blast.calls[k].event = blast.event
        /\ bus[blast.event.type] = <<>> => ~blast.raised

\* The event types of the handler calls made during the call, in order
EventsHandled == [i \in DOMAIN blast.calls |-> blast.calls[i].event.type]

IsPrefix(p, q) == Len(p) <= Len(q) /\ \A i \in DOMAIN p : p[i] = q[i]

\* C12: within one index_document call given an event bus the events are
\* published in the order DocumentDetected, DocumentParsed, DocumentIndexed,
\* each at most once; a successful call publishes all three and a call that
\* returns a skip publishes no DocumentParsed and no DocumentIndexed.
C12_EventsInOrder ==
    blast.op = "index_document" =>
        /\ IsPrefix(blast.published, <<"DocumentDetected", "DocumentParsed", "DocumentIndexed">>)
        /\ \A i, j \in DOMAIN blast.calls :
               i < j => ~(\/ /\ EventsHandled[i] = "DocumentIndexed"
                             /\ EventsHandled[j] # "DocumentIndexed"
                          \/ /\ EventsHandled[i] = "DocumentParsed"
                             /\ EventsHandled[j] = "DocumentDetected")
        /\ (blast.raised = "" /\ blast.res.success) =>
               blast.published = <<"DocumentDetected", "DocumentParsed", "DocumentIndexed">>
        /\ (blast.raised = "" /\ ~blast.res.success) =>
               /\ "DocumentParsed" \notin Range(blast.published)
               /\ "DocumentIndexed" \notin Range(blast.published)

\* A successful call two of whose three events reached a subscribed handler
C12_Witness ==
    /\ blast.op = "index_document"
    /\ blast.raised = "" /\ blast.res.success
    /\ blast.published = <<"DocumentDetected", "DocumentParsed", "DocumentIndexed">>
    /\ Len(blast.calls) = 2
    /\ EventsHandled[1] # EventsHandled[2]

Deleted == last.op = "delete_document_artifacts"

\* The nodes the call removed
RemovedNodes == {n.id : n \in last.before.nodes \ store.nodes}

\* The document id names a stored document
WasStored(st, document_id) == \E n \in st.nodes : DocIdOf(n.id) = document_id

\* C15: after delete_document_artifacts(d), d being the document id of a
\* stored document, the store holds no node for d, no edge with the removed
\* node as from_node or to_node, and no embedding for d.
C15_CascadeDelete ==
    (Deleted /\ WasStored(last.before, last.document_id)) =>
        /\ ~WasStored(store, last.document_id)
        /\ \A e \in Range(store.edges) :
               e.from_node \notin RemovedNodes /\ e.to_node \notin RemovedNodes
        /\ \A f \in store.embeddings : f.doc # last.document_id

\* The edges of documents other than d that do not touch a removed node
ForeignEdges(edges, document_id, removed) ==
    {e \in Range(edges) : /\ DocIdOf(e.from_node) # document_id
                          /\ e.from_node \notin removed
                          /\ e.to_node \notin removed}

\* C16: delete_document_artifacts(d) leaves as they were every node and
\* every embedding of a document other than d and every edge of another
\* document that does not have the removed node as an endpoint; when no
\* document d is stored the store is unchanged.
C16_DeleteFrame ==
    Deleted =>
        /\ {n \in store.nodes : DocIdOf(n.id) # last.document_id}
           = {n \in last.before.nodes : DocIdOf(n.id) # last.document_id}
        /\ {f \in store.embeddings : f.doc # last.document_id}
           = {f \in last.before.embeddings : f.doc # last.document_id}
        /\ SeqFilter(store.edges, ForeignEdges(last.before.edges, last.document_id, RemovedNodes))
           = SeqFilter(last.before.edges,
                       ForeignEdges(last.before.edges, last.document_id, RemovedNodes))
        /\ (/\ ~WasStored(last.before, last.document_id)
            /\ \A f \in last.before.embeddings : f.doc # last.document_id)
           => store = last.before

\* Entity:X has been deleted from a store that also held Entity:A, an edge
\* between the two and an edge from Entity:A to another node: the first edge
\* is gone, the second and Entity:A are still there
C16_Witness ==
    /\ Deleted
    /\ last.document_id = "X"
    /\ RemovedNodes = {NodeEX}
    /\ \E n \in store.nodes : n.id = NodeEA
    /\ \E e \in Range(last.before.edges) : e.from_node = NodeEX \/ e.to_node = NodeEX
    /\ \E e \in Range(store.edges) : e.from_node = NodeEA

\* C17: an index_incremental run made right after a completed run, no
\* commit having been made in between, indexes zero files, deletes zero
\* files and reports zero errors.
C17_IncrementalIdempotence ==
    (IncrementalReturned /\ last.after_run) =>
        /\ last.result.indexed = 0
        /\ last.result.deleted = 0
        /\ last.result.errors = 0

\* A step that is a call of load: the index directory is left as it is
LoadStep == llast'.op = "load" /\ UNCHANGED <<store, last, now>>

\* The ids of the embeddings the artifact store holds
StoredEmbeddingIds(st) == UNION {{x.id : x \in Range(f.items)} : f \in st.embeddings}

\* Nothing in the in-memory stores that the artifact store does not hold
OnlyWhatIsStored(l, st) ==
    /\ l.graph.nodes \subseteq st.nodes
    /\ Range(all_edges(l.graph)) \subseteq Range(st.edges)
    /\ Range(l.vector.id_map) \subseteq StoredEmbeddingIds(st)

\* C18: after reload(), or any load() that returns True, the graph store
\* and the vector store hold no node, edge or embedding that is absent from
\* the artifact store at that moment.
C18_ReloadReplacesWholesale ==
    [][(LoadStep /\ llast'.returned) => OnlyWhatIsStored(loader', store')]_vars

\* The cache key of the manifest, written out
KeyOf(manifest) == <<manifest.indexed_at, manifest.stats.nodes, manifest.stats.edges>>

\* The in-memory stores hold what the artifact store holds: its nodes, edges
\* of it only, and, where a vector store was given, the ids of its embeddings
Reloaded(l, st) ==
    /\ l.graph.nodes = st.nodes
    /\ Range(all_edges(l.graph)) \subseteq Range(st.edges)
    /\ l.has_vector => Range(l.vector.id_map) = StoredEmbeddingIds(st)

\* C19: load() reloads and returns True exactly when a manifest exists and
\* either force is set or (indexed_at, node count, edge count) of the
\* manifest differs from the one seen by the last completed load: the
\* in-memory stores then hold what the artifact store holds and the key is
\* the manifest's; otherwise it returns False and leaves the loader and its
\* stores as they were.
C19_ReloadExactlyOnChange ==
    [][LoadStep =>
        /\ llast'.returned <=>
               /\ store.manifest.present
               /\ llast'.force \/ loader.loaded_manifest_hash # KeyOf(store.manifest)
        /\ ~llast'.returned => loader' = loader
        /\ llast'.returned =>
               /\ Reloaded(loader', store)
               /\ loader'.loaded_manifest_hash = KeyOf(store.manifest)]_vars

\* The (from_node, to_node, edge_type) triples of a list of edges
Triples(edges) == {EdgeKey(e) : e \in Range(edges)}

\* Every triple of the loaded list is visible in the graph
AllTriplesVisible(g, edges) ==
    \A e \in Range(edges) :
        /\ EdgeKey(e) \in Triples(all_edges(g))
        /\ EdgeKey(e) \in Triples(outgoing_edges(g, e.from_node))
        /\ EdgeKey(e) \in Triples(incoming_edges(g, e.to_node))

\* C20: after load(nodes, edges) the graph store holds an edge for each
\* distinct (from_node, to_node, edge_type) of the loaded list, visible to
\* all_edges, to outgoing_edges of its from_node and to incoming_edges of
\* its to_node.
C20_DirectedMultiGraph ==
    [][(LoadStep /\ llast'.returned) => AllTriplesVisible(loader'.graph, store'.edges)]_vars

\* The number of embeddings the store holds
EmbeddingCount(st) == Cardinality(UNION {Range(f.items) : f \in st.embeddings})

\* C30: after every index_incremental run the manifest's stats.nodes,
\* stats.edges and stats.embeddings are the numbers of nodes, edges and
\* embeddings present in the store, and its git_commit is the HEAD commit
\* the run indexed.
C30_ManifestStatsMatchStore ==
    IncrementalReturned =>
        /\ store.manifest.present
        /\ store.manifest.stats.nodes = Cardinality(store.nodes)
        /\ store.manifest.stats.edges = Len(store.edges)
        /\ store.manifest.stats.embeddings = EmbeddingCount(store)
        /\ store.manifest.git_commit = get_current_commit

\* One index_incremental run after each of the commits k..HEAD, on the
\* store st: the store at the end, or the exception of the run that raised
RECURSIVE RunAfterEachCommit(_, _)
RunAfterEachCommit(r, k) ==
    IF k > Len(commits) \/ r.raised # "" THEN r
    ELSE RunAfterEachCommit(
            index_incremental(r.st, SubSeq(commits, 1, k), "L1", FALSE, k,
                CHOOSE m \in RenameMatchings(
                    IF r.st.manifest.present /\ r.st.manifest.git_commit # 0
                    THEN commits[r.st.manifest.git_commit] ELSE EmptyTree,
                    commits[k]) : TRUE,
                <<"entity", "command">>),
            k + 1)

NodeFacts(st) == {<<n.id, n.source_hash>> : n \in st.nodes}

EdgeFacts(st) == {EdgeKey(e) : e \in Range(st.edges)}

\* C28: a history of commits each followed by an index_incremental run on
\* the same store ends with the nodes (id, source_hash) and the edges
\* (from_node, to_node, edge_type) of one full index of the files at HEAD
\* into an empty store.
C28_IncrementalEqualsFull ==
    (/\ Len(commits) > 1
     /\ RunAfterEachCommit(Returned(EmptyStore, IndexResult(FALSE, <<>>, 0, 0, "")), 2).raised = ""
     /\ index_incremental(EmptyStore, commits, "L1", FALSE, 1, {}, <<"entity", "command">>).raised = "")
    =>
    /\ NodeFacts(RunAfterEachCommit(Returned(EmptyStore, IndexResult(FALSE, <<>>, 0, 0, "")), 2).st)
       = NodeFacts(index_incremental(EmptyStore, commits, "L1", FALSE, 1, {}, <<"entity", "command">>).st)
    /\ EdgeFacts(RunAfterEachCommit(Returned(EmptyStore, IndexResult(FALSE, <<>>, 0, 0, "")), 2).st)
       = EdgeFacts(index_incremental(EmptyStore, commits, "L1", FALSE, 1, {}, <<"entity", "command">>).st)

\* The graph store holds the nodes and the edges of the artifact store
GraphReflects(g, st) ==
    /\ g.nodes = st.nodes
    /\ Triples(all_edges(g)) = EdgeFacts(st)

\* C29: whenever load() is called without force on an index that has a
\* manifest, the in-memory graph store afterwards holds the nodes and edges
\* of the artifact store, whatever command changed them before.
C29_NeverStale ==
    [][(LoadStep /\ ~llast'.force /\ store.manifest.present)
          => GraphReflects(loader'.graph, store')]_vars

\* C27: if a write of an artifact file is interrupted at any point, a later
\* reader finds the complete old content or the complete new content of
\* the file, never a truncated or partially written one.
C27_AtomicReplace ==
    disk.pc = "interrupted" => (disk.text = disk.before \/ disk.text = disk.data)

\* C26: every edge the extractors emit, of any edge type, has
\* layer_violation true exactly when the origin document's layer is not
\* 00-requirements and its numeric layer index is strictly less than that of
\* the destination node's layer.
C26_LayerViolationFlag ==
    last.op = "extract_edges" =>
        \A e \in Range(last.edges) :
            e.layer_violation <=>
                /\ last.from_layer # "00-requirements"
                /\ numeric[last.from_layer] < numeric[_guess_layer_from_node_id(e.to_node)]

\* The edges of the loaded index that pass the filters of a graph query
PassingEdges(edges, query) ==
    {e \in Range(edges) :
        /\ query.edge_types.given => e.edge_type \in Range(query.edge_types.items)
        /\ query.respect_layers => ~e.layer_violation}

\* The nodes within k hops of root along the edges, in either direction
RECURSIVE Within(_, _, _)
Within(k, root, edges) ==
    IF k = 0 THEN {root}
    ELSE Within(k - 1, root, edges)
            \cup {e.to_node : e \in {f \in edges : f.from_node \in Within(k - 1, root, edges)}}
            \cup {e.from_node : e \in {f \in edges : f.to_node \in Within(k - 1, root, edges)}}

\* The shortest hop distance, for a node within depth hops
HopDistance(node_id, root, edges, depth) ==
    CHOOSE d \in 0..depth :
        /\ node_id \in Within(d, root, edges)
        /\ \A c \in 0..(d - 1) : node_id \notin Within(c, root, edges)

IndexedIds(nodes) == {nodes[i].id : i \in DOMAIN nodes}

ExpectedRelated(nodes, edges, query) ==
    {n \in Range(nodes) :
        /\ n.id # query.root_node
        /\ n.id \in Within(query.depth, query.root_node, PassingEdges(edges, query))
        /\ query.include_kinds.given => n.kind \in Range(query.include_kinds.items)}

\* C24: the related nodes of retrieve_by_graph are exactly the indexed nodes
\* other than the root at shortest hop distance 1..depth over the edges of
\* the loaded index that pass the filters, in either direction, restricted
\* to include_kinds; each is scored 1/(1+d) and the list is in descending
\* score order.
C24_RelatedNodesByDistance ==
    (llast.op = "retrieve_by_graph" /\ llast.result.raised = "") =>
        LET related == llast.result.related_nodes
            passing == PassingEdges(llast.edges, llast.query)
        IN  /\ {related[i].node_id : i \in DOMAIN related}
                   = {n.id : n \in ExpectedRelated(llast.nodes, llast.edges, llast.query)}
            /\ \A i, j \in DOMAIN related : related[i].node_id = related[j].node_id => i = j
            /\ \A i \in DOMAIN related :
                   related[i].node_id \in Within(llast.query.depth, llast.query.root_node, passing)
                       => related[i].score
                              = Score(HopDistance(related[i].node_id, llast.query.root_node,
                                                  passing, llast.query.depth))
            /\ \A i, j \in DOMAIN related :
                   i < j => ~ScoreLess(related[i].score, related[j].score)

\* The sources of the edges into a node of S
Dependents(S, edges) == {e.from_node : e \in {f \in Range(edges) : f.to_node \in S}}

\* The nodes from which a node of S is reached along exactly k edges
RECURSIVE BackExactly(_, _, _)
BackExactly(k, S, edges) ==
    IF k = 0 THEN S ELSE BackExactly(k - 1, Dependents(S, edges), edges)

DirectIds == {llast.result.directly_affected[i].node_id :
                 i \in DOMAIN llast.result.directly_affected}

TransitiveIds == {llast.result.transitively_affected[i].node_id :
                     i \in DOMAIN llast.result.transitively_affected}

\* path starts at the queried node, ends at the affected node, and each of
\* its steps goes against an edge of the loaded index of the recorded type
IsDependencyPath(t, node_id, edges) ==
    /\ Len(t.path) = Len(t.edge_types) + 1
    /\ t.path[1] = node_id
    /\ t.path[Len(t.path)] = t.node_id
    /\ \A j \in DOMAIN t.edge_types :
           \E e \in Range(edges) :
               /\ e.to_node = t.path[j]
               /\ e.from_node = t.path[j + 1]
               /\ e.edge_type = t.edge_types[j]

\* C25: retrieve_impact lists as directly affected exactly the indexed
\* sources of the queried node's incoming edges, and as transitively
\* affected exactly the other indexed nodes reached against incoming edges
\* in 2 to depth hops, each with a path from the queried node along existing
\* edges; no node is in both lists, and with depth <= 1 the transitive list
\* is empty.
C25_ImpactLists ==
    (llast.op = "retrieve_impact" /\ llast.result.raised = "") =>
        /\ DirectIds = IndexedIds(llast.nodes) \cap Dependents({llast.node_id}, llast.edges)
        /\ TransitiveIds
               = {n \in IndexedIds(llast.nodes) \ (DirectIds \cup {llast.node_id}) :
                     \E k \in 2..llast.depth : n \in BackExactly(k, {llast.node_id}, llast.edges)}
        /\ \A i \in DOMAIN llast.result.transitively_affected :
               /\ IsDependencyPath(llast.result.transitively_affected[i], llast.node_id,
                                   llast.edges)
               /\ Len(llast.result.transitively_affected[i].path) \in 3..(llast.depth + 1)
               /\ \A j \in DOMAIN llast.result.transitively_affected :
                      llast.result.transitively_affected[i].node_id
                          = llast.result.transitively_affected[j].node_id => i = j
        /\ DirectIds \cap TransitiveIds = {}
        /\ llast.depth <= 1 => llast.result.transitively_affected = <<>>

\* An impact query at depth 2 with a direct dependent and a transitive one
\* behind it
C25_Witness ==
    /\ llast.op = "retrieve_impact"
    /\ llast.result.raised = ""
    /\ llast.depth = 2
    /\ DirectIds = {NodeEA}
    /\ \E i \in DOMAIN llast.result.transitively_affected :
           llast.result.transitively_affected[i].path = <<NodeB, NodeEA, NodeC>>

\* The nodes of the index that match the query text and pass its filters
LexicalMatches ==
    {n \in Range(llast.nodes) :
        /\ _node_matches_text(n, lower(llast.query.query_text))
        /\ _kind_layer_filter(n, llast.query.include_kinds, llast.query.include_layers)}

HybridReturned == llast.op = "retrieve_hybrid" /\ llast.result.raised = ""

\* C21: for a query of at least 3 characters, retrieve_hybrid without a
\* vector store raises nothing, warns NO_EMBEDDINGS, builds its results from
\* the lexical and graph phases only, and returns a non-empty list whenever
\* a node matches the query lexically.
C21_GracefulDegradation ==
    (/\ llast.op = "retrieve_hybrid"
     /\ ~llast.has_vector
     /\ Len(strip(llast.query.query_text)) >= 3) =>
        /\ llast.result.raised = ""
        /\ "NO_EMBEDDINGS" \in Range(llast.result.warnings)
        /\ \A r \in Range(llast.result.results) : r.match_source \in {"lexical", "graph"}
        /\ LexicalMatches # {} => llast.result.results # <<>>

\* The sum of the estimated tokens of the snippets
RECURSIVE SnippetTokens(_)
SnippetTokens(results) ==
    IF results = <<>> THEN 0
    ELSE count_tokens(Head(results).snippet) + SnippetTokens(Tail(results))

\* C22: retrieve_hybrid returns results in descending fused-score order,
\* never more than limit of them, and total_tokens, the estimated tokens of
\* their snippets, never exceeds max_tokens.
C22_LimitAndTokenBudget ==
    HybridReturned =>
        /\ Len(llast.result.results) <= llast.query.limit
        /\ llast.result.total_tokens = SnippetTokens(llast.result.results)
        /\ llast.result.total_tokens <= llast.query.max_tokens
        /\ \A i, j \in DOMAIN llast.result.results :
               i < j => ~FloatLess(llast.result.results[i].score, llast.result.results[j].score)

\* What the phases found for a node of the results
SourcesOf(node_id) == CHOOSE e \in Range(llast.result.scores) : e.node_id = node_id

PhaseCount(e) ==
    Cardinality({k \in {"semantic", "graph", "lexical"} : FloatLess(FloatZero, e[k])})

\* C23: a node matched by both the semantic and the graph phase has a fused
\* score at least that of every node matched by only one phase.
C23_FusionDominance ==
    HybridReturned =>
        \A r, q \in Range(llast.result.results) :
            (/\ FloatLess(FloatZero, SourcesOf(r.node_id).semantic)
             /\ FloatLess(FloatZero, SourcesOf(r.node_id).graph)
             /\ PhaseCount(SourcesOf(q.node_id)) = 1)
                => ~FloatLess(r.score, q.score)

====
